---- MODULE Spec2Model ----
(***************************************************************************)
(* GL(2,R)-orbit closure tangent-space engine of sage-flatsurf             *)
(* (src/flatsurf/geometry/gl2r_orbit_closure.py).                          *)
(*                                                                         *)
(* State: one GL2ROrbitClosure driver (its surface, spanning tree,         *)
(* projection matrix, holonomy matrix and the accumulator _U / _U_rank)    *)
(* and the Decomposition object the caller currently holds.                *)
(*                                                                         *)
(* Conventions.  A half-edge is a nonzero integer; -h is the opposite      *)
(* half-edge; edge k (k = 1..nE) has the half-edges k and -k.  Python's    *)
(* 0-based indices are kept as indices (index(), edge().index()) and are   *)
(* shifted by one only where a TLA+ sequence is subscripted.  An element   *)
(* of the coordinate field is a pair <<a, b>> standing for a + b*sqrt(2);  *)
(* over the rationals b is always 0.                                       *)
(***************************************************************************)
EXTENDS Integers, Sequences, FiniteSets, TLC

VARIABLES
    surface,        \* self._surface: the triangulated surface (immutable)
    pc,             \* "constructing" | "idle" | "pending" | "returned"
    t,              \* spanning tree: face -> half-edge towards the root (0 = None)
    spanning_set,   \* self.spanning_set: sequence of edges (positive half-edges)
    proj,           \* self.proj: d x n integer matrix
    H,              \* self.H: d x 2 matrix over the field
    U,              \* self._U: d x d matrix over the field
    U_rank,         \* self._U_rank
    initOK,         \* every assertion of __init__ held
    dec,            \* the Decomposition the caller holds
    result,         \* what cylinder_deformation_subspace gave the last update
    outcome,        \* how the last update ended
    writes,         \* rows written by the last update, in order
    input,          \* the object handed to GL2ROrbitClosure(...)
    raised,         \* the exception GL2ROrbitClosure(...) let through, or "none"
    Omega,          \* self.Omega: d x d integer matrix
    call,           \* the last call of a method that only computes: its
                    \* name, argument and value
    gen,            \* the generator of decompositions_depth_first the caller holds
    caller_visited, \* the set the caller passes as visited=, if it passes one
    yields,         \* the vectors whose decompositions the generator has yielded
    earlier         \* bound and yields of the enumeration before this one

\* what the steps of a constructed driver leave alone
callers == <<gen, caller_visited, yields, earlier, input, raised>>

vars == <<surface, pc, t, spanning_set, proj, H, U, U_rank, initOK,
          dec, result, outcome, writes, input, raised, Omega, call,
          gen, caller_visited, yields, earlier>>

(***************************************************************************)
(* Exact arithmetic in the coordinate field.                               *)
(***************************************************************************)
KZero == <<0, 0>>
KOne == <<1, 0>>
ToK(a) == <<a, 0>>
KAdd(x, y) == <<x[1] + y[1], x[2] + y[2]>>
KNeg(x) == <<-x[1], -x[2]>>
KMul(x, y) == <<x[1] * y[1] + 2 * x[2] * y[2], x[1] * y[2] + x[2] * y[1]>>
KIsZero(x) == x[1] = 0 /\ x[2] = 0
\* norm of a + b*sqrt(2); the inverse is the conjugate divided by the norm
KNorm(x) == x[1] * x[1] - 2 * x[2] * x[2]
KInv(x) == <<x[1] * KNorm(x), -x[2] * KNorm(x)>>

Abs(a) == IF a < 0 THEN -a ELSE a

RECURSIVE Gcd(_, _)
Gcd(a, b) == IF b = 0 THEN Abs(a) ELSE Gcd(b, a % Abs(b))

VZero(n) == [c \in 1..n |-> KZero]
VAdd(v, w) == [c \in 1..Len(v) |-> KAdd(v[c], w[c])]
VScale(x, v) == [c \in 1..Len(v) |-> KMul(x, v[c])]
VIsZero(v) == \A c \in 1..Len(v) : KIsZero(v[c])
VToK(v) == [c \in 1..Len(v) |-> ToK(v[c])]
MToK(M) == [i \in 1..Len(M) |-> VToK(M[i])]

RECURSIVE SeqGcd(_, _)
SeqGcd(v, k) == IF k = 0 THEN 0 ELSE Gcd(Gcd(v[k][1], v[k][2]), SeqGcd(v, k - 1))

\* a row divided by the gcd of its integer coordinates (same span, smaller numbers)
Primitive(v) ==
    LET g == SeqGcd(v, Len(v))
    IN IF g \in {0, 1} THEN v
       ELSE [c \in 1..Len(v) |-> <<v[c][1] \div g, v[c][2] \div g>>]

Tail1(v) == SubSeq(v, 2, Len(v))

RECURSIVE Rank(_)
\* rank over the field of a matrix given as a sequence of rows (Sage's M.rank()):
\* elimination on the first column, row by row, without division
Rank(M) ==
    IF M = <<>> \/ Head(M) = <<>> THEN 0
    ELSE LET piv == {i \in 1..Len(M) : ~KIsZero(M[i][1])}
         IN IF piv = {}
            THEN Rank([i \in 1..Len(M) |-> Tail1(M[i])])
            ELSE LET p == CHOOSE i \in piv : \A j \in piv : i <= j
                     others == SelectSeq([i \in 1..Len(M) |-> <<i, M[i]>>],
                                         LAMBDA e : e[1] # p)
                     reduced == [k \in 1..Len(others) |->
                                   Primitive(Tail1(
                                     VAdd(VScale(M[p][1], others[k][2]),
                                          VScale(KNeg(others[k][2][1]), M[p]))))]
                 IN 1 + Rank(reduced)

Transpose(M) ==
    IF M = <<>> THEN <<>>
    ELSE [c \in 1..Len(M[1]) |-> [i \in 1..Len(M) |-> M[i][c]]]

ZIsZero(v) == \A c \in 1..Len(v) : v[c] = 0
ZIdentity(n) == [i \in 1..n |-> [c \in 1..n |-> IF i = c THEN 1 ELSE 0]]

RECURSIVE ZDot(_, _, _)
ZDot(v, w, k) == IF k = 0 THEN 0 ELSE v[k] * w[k] + ZDot(v, w, k - 1)
\* matrix times column vector over the integers
ZApply(M, v) == [i \in 1..Len(M) |-> ZDot(M[i], v, Len(v))]

(***************************************************************************)
(* The surface adapter (pyflatsurf): half-edges, nextInFace, fromEdge.     *)
(***************************************************************************)
\* HalfEdge.index(): 2(k-1) for the positive and 2(k-1)+1 for the negative half-edge
index(h) == IF h > 0 THEN 2 * (h - 1) ELSE 2 * (-h - 1) + 1
\* HalfEdge.edge().index()
edge_index(h) == index(h) \div 2
nextInFace(S, h) == S.nif[h]
fromEdge(S, h) == IF h > 0 THEN S.vec[h] ELSE <<KNeg(S.vec[-h][1]), KNeg(S.vec[-h][2])>>
\* surface.size(): the number of edges
size(S) == S.nE
\* the next half-edge counterclockwise around the source vertex of h: the
\* opposite of the half-edge that comes before h in its face
nextAtVertex(S, h) == -(CHOOSE g \in DOMAIN S.nif : nextInFace(S, g) = h)

\* a square with sides bot, rt, tp, lf and diagonal dg gives two triangles
\* (bot, rt, -dg) and (dg, -tp, -lf)
SquareFaces(bot, rt, tp, lf, dg) == {<<bot, rt, -dg>>, <<dg, -tp, -lf>>}

NifOf(faces) ==
    LET hs == UNION {{f[1], f[2], f[3]} : f \in faces}
    IN [h \in hs |->
          LET f == CHOOSE g \in faces : h \in {g[1], g[2], g[3]}
          IN IF h = f[1] THEN f[2] ELSE IF h = f[2] THEN f[3] ELSE f[1]]

\* the vectors of bottom, right side and diagonal of a w x h rectangle
Hor(w) == <<w, KZero>>
Ver(h) == <<KZero, h>>
Dia(w, h) == <<w, h>>

Sqrt2 == <<0, 1>>

\* the square torus: one square, 3 edges, d = 2
Torus ==
    [nE |-> 3, ring |-> "QQ",
     nif |-> NifOf(SquareFaces(1, 2, 1, 2, 3)),
     vec |-> <<Hor(KOne), Ver(KOne), Dia(KOne, KOne)>>]

\* a torus of two rectangles side by side (one marked point): 6 edges, d = 3;
\* the second rectangle has width w
TwoSquares(w, ring) ==
    [nE |-> 6, ring |-> ring,
     nif |-> NifOf(SquareFaces(1, 4, 1, 3, 5) \cup SquareFaces(2, 3, 2, 4, 6)),
     vec |-> <<Hor(KOne), Hor(w), Ver(KOne), Ver(KOne), Dia(KOne, KOne), Dia(w, KOne)>>]

\* the L-shaped surface of three rectangles A, B (right of A), C (above A) in
\* H(2): 9 edges, d = 4; B has width w and C has height w
LShape(w, ring) ==
    [nE |-> 9, ring |-> ring,
     nif |-> NifOf(SquareFaces(1, 5, 3, 4, 7) \cup SquareFaces(2, 4, 2, 5, 8)
                   \cup SquareFaces(3, 6, 1, 6, 9)),
     vec |-> <<Hor(KOne), Hor(w), Hor(KOne), Ver(KOne), Ver(KOne), Ver(w),
               Dia(KOne, KOne), Dia(w, KOne), Dia(KOne, w)>>]

\* the same surface with the orientation of the edges in F reversed
Relabel(S, F) ==
    LET sw(h) == IF Abs(h) \in F THEN -h ELSE h
    IN [nE |-> S.nE, ring |-> S.ring,
        nif |-> [h \in DOMAIN S.nif |-> sw(S.nif[sw(h)])],
        vec |-> [k \in 1..S.nE |->
                   IF k \in F THEN <<KNeg(S.vec[k][1]), KNeg(S.vec[k][2])>>
                   ELSE S.vec[k]]]

(***************************************************************************)
(* GL2ROrbitClosure: faces, spanning tree, projection matrix.              *)
(***************************************************************************)
MinByIndex(hs) == CHOOSE h \in hs : \A g \in hs : index(h) <= index(g)

_half_edge_to_face(S, h) ==
    LET h1 == h
        h2 == nextInFace(S, h1)
        h3 == nextInFace(S, h2)
    IN MinByIndex({h1, h2, h3})

\* the half-edges in the order of `for e in edges(): for h1 in [e.positive(), e.negative()]`
HalfEdgeOrder(S) == [k \in 1..(2 * S.nE) |-> IF k % 2 = 1 THEN (k + 1) \div 2 ELSE -(k \div 2)]

RECURSIVE FacesLoop(_, _, _, _)
FacesLoop(S, k, seen, faces) ==
    IF k > 2 * S.nE THEN faces
    ELSE LET h1 == HalfEdgeOrder(S)[k]
             h2 == nextInFace(S, h1)
             h3 == nextInFace(S, h2)
         IN IF h1 \in seen THEN FacesLoop(S, k + 1, seen, faces)
            ELSE FacesLoop(S, k + 1, seen \cup {h1, h2, h3}, Append(faces, <<h1, h2, h3>>))

_faces(S) == FacesLoop(S, 1, {}, <<>>)

\* a visit that records the half-edge it crossed from, not its opposite
TreeVisit_records_crossed(S, st, f) ==
    LET f1 == -f
        g == _half_edge_to_face(S, f1)
    IN IF g \in DOMAIN st.t THEN st
       ELSE [t |-> st.t @@ (g :> f),
             todo |-> Append(st.todo, g),
             edges |-> Append(st.edges, f1)]

\* one pass of the body of `for _ in range(3)` for the half-edge f
TreeVisit(S, st, f) ==
    LET f1 == -f
        g == _half_edge_to_face(S, f1)
    IN IF g \in DOMAIN st.t THEN st
       ELSE [t |-> st.t @@ (g :> f1),
             todo |-> Append(st.todo, g),
             edges |-> Append(st.edges, f1)]

RECURSIVE TreeLoop(_, _)
\* while todo: f = todo.pop(); visit the three half-edges of the face of f
TreeLoop(S, st) ==
    IF st.todo = <<>> THEN st
    ELSE LET f == st.todo[Len(st.todo)]
             s0 == [st EXCEPT !.todo = SubSeq(st.todo, 1, Len(st.todo) - 1)]
             s1 == TreeVisit(S, s0, f)
             s2 == TreeVisit(S, s1, nextInFace(S, f))
             s3 == TreeVisit(S, s2, nextInFace(S, nextInFace(S, f)))
         IN TreeLoop(S, s3)

\* the list left in the order of discovery
Reverse_not_done(s) == s

\* edges.reverse()
Reverse(s) == [k \in 1..Len(s) |-> s[Len(s) + 1 - k]]

sign(h) == IF index(h) % 2 = 1 THEN -1 ELSE 1

\* the reduction with the sign of the third half-edge dropped
GaussRow_third_sign_dropped(S, m, f1) ==
    LET f2 == nextInFace(S, f1)
        f3 == nextInFace(S, f2)
    IN [c \in 1..size(S) |->
          -sign(f1) * (sign(f2) * m[edge_index(f2) + 1][c] + m[edge_index(f3) + 1][c])]

\* proj[i1] = -s1*(s2*proj[i2] + s3*proj[i3])
GaussRow(S, m, f1) ==
    LET f2 == nextInFace(S, f1)
        f3 == nextInFace(S, f2)
    IN [c \in 1..size(S) |->
          -sign(f1) * (sign(f2) * m[edge_index(f2) + 1][c]
                       + sign(f3) * m[edge_index(f3) + 1][c])]

RECURSIVE GaussLoop(_, _, _, _)
\* for f1 in edges: ...; ok records the two assertions of the loop body
GaussLoop(S, edges, k, st) ==
    IF k > Len(edges) THEN st
    ELSE LET f1 == edges[k]
             f2 == nextInFace(S, f1)
             f3 == nextInFace(S, f2)
             i1 == edge_index(f1)
             m == [st.proj EXCEPT ![i1 + 1] = GaussRow(S, st.proj, f1)]
         IN GaussLoop(S, edges, k + 1,
                [proj |-> m,
                 ok |-> st.ok /\ nextInFace(S, f3) = f1
                              /\ \A j \in 1..size(S) : m[j][i1 + 1] = 0])

\* root=None: next(iter(edges())).positive()
DefaultRoot == 1

_spanning_tree(S, root) ==
    LET r0 == _half_edge_to_face(S, root)
        tree == TreeLoop(S, [t |-> (r0 :> 0), todo |-> <<r0>>, edges |-> <<>>])
        g == GaussLoop(S, Reverse(tree.edges), 1, [proj |-> ZIdentity(size(S)), ok |-> TRUE])
    IN [t |-> tree.t, edges |-> tree.edges, proj |-> g.proj, ok |-> g.ok]

\* the edges whose positive half-edge is not a value of t
SpanningSet_positive_only(S, tree) ==
    LET v == {tree[f] : f \in DOMAIN tree}
    IN SelectSeq([k \in 1..S.nE |-> k], LAMBDA e : e \notin v)

\* the edges whose negative half-edge is not a value of t
SpanningSet_negative_only(S, tree) ==
    LET v == {tree[f] : f \in DOMAIN tree}
    IN SelectSeq([k \in 1..S.nE |-> k], LAMBDA e : (-e) \notin v)

\* the edges neither of whose half-edges is a value of t, in the order of edges()
SpanningSet(S, tree) ==
    LET v == {tree[f] : f \in DOMAIN tree}
    IN SelectSeq([k \in 1..S.nE |-> k], LAMBDA e : e \notin v /\ (-e) \notin v)

\* matrix(ZZ, [r for r in m.transpose().rows() if not r.is_zero()])
NonZeroRows(m) == SelectSeq(m, LAMBDA r : ~ZIsZero(r))

\* self.H[i] = fromEdge(spanning_set[i].positive())
HolonomyMatrix(S, ss) == [i \in 1..Len(ss) |-> fromEdge(S, ss[i])]

\* a d x d identity matrix with the two rows of H transposed on top
InitU_identity(h, d) ==
    [i \in 1..d |-> IF i <= 2 THEN Transpose(h)[i]
                    ELSE [c \in 1..d |-> IF c = i THEN KOne ELSE KZero]]

\* self._U = matrix(ring, d); self._U[:2] = self.H.transpose()
InitU(h, d) ==
    [i \in 1..d |-> IF i <= 2 THEN Transpose(h)[i] ELSE VZero(d)]

\* boundaries(): one vector per face of _faces()
boundaries(S) ==
    LET fs == _faces(S)
        n == size(S)
        bd(f) ==
            LET v0 == [c \in 1..n |-> 0]
                v1 == [v0 EXCEPT ![edge_index(f[1]) + 1] = 1]
                v2 == [v1 EXCEPT ![edge_index(f[2]) + 1] = sign(f[1]) * sign(f[2])]
            IN [v2 EXCEPT ![edge_index(f[3]) + 1] = sign(f[1]) * sign(f[3])]
    IN [k \in 1..Len(fs) |-> bd(fs[k])]

(***************************************************************************)
(* _intersection_matrix                                                    *)
(***************************************************************************)
RECURSIVE SkipLoop(_, _, _)
\* while h not in all_edges: h = nextAtVertex(h)
SkipLoop(S, all_edges, h) ==
    IF h \in all_edges THEN h ELSE SkipLoop(S, all_edges, nextAtVertex(S, h))

RECURSIVE ContourLoop_around_vertex(_, _, _, _)
\* a walk that goes on from h itself, not from -h
ContourLoop_around_vertex(S, all_edges, contour, h) ==
    IF \E k \in 1..Len(contour) : contour[k] = h THEN contour
    ELSE ContourLoop_around_vertex(S, all_edges, Append(contour, h),
                     SkipLoop(S, all_edges, nextAtVertex(S, h)))

RECURSIVE ContourLoop(_, _, _, _)
\* while h not in contour_inv: ...
ContourLoop(S, all_edges, contour, h) ==
    IF \E k \in 1..Len(contour) : contour[k] = h THEN contour
    ELSE ContourLoop(S, all_edges, Append(contour, h),
                     SkipLoop(S, all_edges, nextAtVertex(S, -h)))

\* contour_inv[h]: the 0-based position of h in the contour
contour_inv(contour, h) == (CHOOSE k \in 1..Len(contour) : contour[k] = h) - 1

\* the sign and the ordered pair of positions of an edge (lines 685-691)
Oriented(p1, p2) ==
    IF p1 > p2 THEN [s |-> -1, p1 |-> p2, p2 |-> p1] ELSE [s |-> 1, p1 |-> p1, p2 |-> p2]

\* a test that takes only pairs lying apart for pairs that do not cross
NoIntersection_apart_only(a, b) ==
    \/ b.p2 < a.p1
    \/ a.p2 < b.p1

NoIntersection(a, b) ==
    \/ b.p2 < a.p1
    \/ a.p2 < b.p1
    \/ (b.p1 > a.p1 /\ b.p2 < a.p2)
    \/ (b.p1 < a.p1 /\ b.p2 > a.p2)

\* Omega[i,j] for i < j (lines 706-718)
Crossing(a, b) ==
    IF NoIntersection(a, b) THEN 0
    ELSE IF a.p1 < b.p1 /\ b.p1 < a.p2 THEN a.s * b.s
    ELSE -a.s * b.s

\* the assertion of line 717
CrossingOK(a, b) ==
    \/ NoIntersection(a, b)
    \/ (a.p1 < b.p1 /\ b.p1 < a.p2)
    \/ (a.p1 < b.p2 /\ b.p2 < a.p2)

\* the entry below the diagonal copied without the change of sign
Mirror_same_sign(x) == x

\* Omega[j,i] = - Omega[i,j]
Mirror(x) == -x

_intersection_matrix(S, tree, ss) ==
    LET d0 == Len(ss)
        all_edges == {ss[k] : k \in 1..d0} \cup {-ss[k] : k \in 1..d0}
        contour == ContourLoop(S, all_edges, <<>>, ss[1])
        closed == Len(contour) = Cardinality(all_edges)
        pos(k) == Oriented(contour_inv(contour, ss[k]), contour_inv(contour, -ss[k]))
    IN IF ~closed THEN [Omega |-> <<>>, ok |-> FALSE, contour |-> contour]
       ELSE [Omega |-> [i \in 1..d0 |-> [j \in 1..d0 |->
                          IF i < j THEN Crossing(pos(i), pos(j))
                          ELSE IF j < i THEN Mirror(Crossing(pos(j), pos(i)))
                          ELSE 0]],
             ok |-> \A i \in 1..d0 : \A j \in (i + 1)..d0 : CrossingOK(pos(i), pos(j)),
             contour |-> contour]

(***************************************************************************)
(* lift: the vector on all edges with given values on the spanning set.    *)
(***************************************************************************)
\* a sequence given by a formula, as the tuple of its values
Tuple(s) == s \o <<>>

RECURSIVE ZSeqGcd(_, _)
ZSeqGcd(v, k) == IF k = 0 THEN 0 ELSE Gcd(v[k], ZSeqGcd(v, k - 1))

\* an equation c . x = r with integer coefficients c and r in the field,
\* divided by the gcd of its integers
Equation(c, r) ==
    LET g == Gcd(ZSeqGcd(c, Len(c)), Gcd(r[1], r[2]))
    IN IF g \in {0, 1} THEN [c |-> c, r |-> r]
       ELSE [c |-> Tuple([k \in 1..Len(c) |-> c[k] \div g]),
             r |-> <<r[1] \div g, r[2] \div g>>]

RECURSIVE SolveLoop(_, _, _, _)
\* elimination column by column; pivots[c] is the row that keeps column c (0: none)
SolveLoop(rows, c, n, pivots) ==
    IF c > n THEN [rows |-> rows, pivots |-> pivots]
    ELSE LET used == {pivots[k] : k \in 1..Len(pivots)}
             cand == {i \in 1..Len(rows) : rows[i].c[c] # 0 /\ i \notin used}
         IN IF cand = {} THEN SolveLoop(rows, c + 1, n, Append(pivots, 0))
            ELSE LET p == CHOOSE i \in cand : \A j \in cand : i <= j
                     a == rows[p].c[c]
                     elim(row) ==
                         Equation(Tuple([k \in 1..n |-> a * row.c[k] - row.c[c] * rows[p].c[k]]),
                                  KAdd(KMul(ToK(a), row.r), KMul(ToK(-row.c[c]), rows[p].r)))
                 IN SolveLoop(Tuple([i \in 1..Len(rows) |->
                                 IF i = p \/ rows[i].c[c] = 0 THEN rows[i] ELSE elim(rows[i])]),
                              c + 1, n, Append(pivots, p))

\* A.solve_right(u) for an integer matrix A and u over the field: the solution x
\* of A x = u; ValueError if there is none.  "free" tells that the solution is
\* not unique and "exact" that it has coordinates in Z[sqrt 2].
solve_right(A, u) ==
    LET n == Len(A[1])
        e == SolveLoop(Tuple([i \in 1..Len(A) |-> Equation(Tuple(A[i]), u[i])]), 1, n, <<>>)
        used == {e.pivots[k] : k \in 1..n}
        solvable == \A i \in 1..Len(A) : i \notin used => KIsZero(e.rows[i].r)
        coef(c) == e.rows[e.pivots[c]].c[c]
        rhs(c) == e.rows[e.pivots[c]].r
    IN IF ~solvable THEN [raised |-> "ValueError", value |-> <<>>, free |-> FALSE, exact |-> TRUE]
       ELSE [raised |-> "none",
             value |-> [c \in 1..n |->
                          IF e.pivots[c] = 0 THEN KZero
                          ELSE <<rhs(c)[1] \div coef(c), rhs(c)[2] \div coef(c)>>],
             free |-> \E c \in 1..n : e.pivots[c] = 0,
             exact |-> \A c \in 1..n : e.pivots[c] # 0 =>
                          (rhs(c)[1] % Abs(coef(c)) = 0 /\ rhs(c)[2] % Abs(coef(c)) = 0)]

\* the row of the spanning edge e written into the column after its own
SpanningRow_next_column(n, e) == [c \in 1..n |-> IF c = ((edge_index(e) + 1) % n) + 1 THEN 1 ELSE 0]

\* A[i, e.index()] = 1
SpanningRow(n, e) == [c \in 1..n |-> IF c = edge_index(e) + 1 THEN 1 ELSE 0]

\* lift(v)
lift(S, ss, v) ==
    LET bdry == boundaries(S)
        n == S.nE
        k == Len(ss)
        A == [i \in 1..(n + 1) |->
                IF i <= k THEN SpanningRow(n, ss[i])
                ELSE IF i - k <= Len(bdry) THEN bdry[i - k]
                ELSE [c \in 1..n |-> 0]]
        u == [i \in 1..(n + 1) |-> IF i <= k THEN v[i] ELSE KZero]
    IN IF k + Len(bdry) # n + 1
       THEN [raised |-> "AssertionError", value |-> <<>>, free |-> FALSE, exact |-> TRUE]
       ELSE solve_right(A, u)

(***************************************************************************)
(* Decomposition: what the flow-decomposition adapter hands to the driver. *)
(* A component carries its classification and, for a cylinder, what        *)
(* circumference_width computes for it from the adapter's data: the        *)
(* circumference in the spanning-set basis, the width, the modulus         *)
(* area / |holonomy|^2, and whether the cross-check assertions of          *)
(* circumference_width hold for it.  cocycle tells whether the assertions  *)
(* of kontsevich_zorich_cocycle hold for the decomposition.                *)
(***************************************************************************)
MaxComponents == 2

UnitVector(d, k) == [c \in 1..d |-> IF c = k THEN 1 ELSE 0]
Circumferences(d) == {UnitVector(d, 1), UnitVector(d, d)}

Widths(ring) == IF ring = "QQ" THEN {ToK(2)} ELSE {ToK(1)}
\* moduli are units of the ring of integers, so that 1/modulus and the
\* echelon basis of the moduli relations have integer coordinates
Moduli(ring) == IF ring = "QQ" THEN {KOne} ELSE {KOne, <<1, 1>>}

Minimal(d) ==
    [kind |-> "minimal", circ |-> UnitVector(d, 1), width |-> KOne,
     modulus |-> KOne, checks |-> TRUE]
Undetermined(d) ==
    [kind |-> "undetermined", circ |-> UnitVector(d, 1), width |-> KOne,
     modulus |-> KOne, checks |-> TRUE]
Cylinders(d, ring) ==
    {[kind |-> "cylinder", circ |-> c, width |-> w, modulus |-> m, checks |-> TRUE] :
        c \in Circumferences(d), w \in Widths(ring), m \in Moduli(ring)}
    \cup {[kind |-> "cylinder", circ |-> UnitVector(d, d), width |-> KOne,
           modulus |-> KOne, checks |-> FALSE]}

Components(d, ring) == Cylinders(d, ring) \cup {Minimal(d), Undetermined(d)}

SeqsUpTo(X, n) == UNION {[1..k -> X] : k \in 1..n}

Decompositions(d, ring) ==
    {[components |-> cs, cocycle |-> ok] :
        cs \in SeqsUpTo(Components(d, ring), MaxComponents), ok \in BOOLEAN}

NoDecomposition == [components |-> <<>>, cocycle |-> TRUE]

\* comp.cylinder() is a tribool: True, False or indeterminate
cylinder(comp) ==
    CASE comp.kind = "cylinder" -> "True"
      [] comp.kind = "minimal" -> "False"
      [] OTHER -> "indeterminate"

\* Python's sum(vs): the int 0 for an empty list, written <<>> here
PyZero == <<>>
RECURSIVE VSum(_)
VSum(vs) ==
    IF vs = <<>> THEN PyZero
    ELSE IF Len(vs) = 1 THEN vs[1]
    ELSE VAdd(vs[1], VSum(Tail(vs)))

\* the reduced echelon basis of the row space of the 2 x n matrix with rows a, b
\* (the coordinates of the moduli on 1 and sqrt(2)): what
\* M.left_kernel().matrix().right_kernel().basis() is for M = rows (a[i], b[i])
EchelonBasis(a, b) ==
    LET n == Len(a)
        nz == {c \in 1..n : a[c] # 0 \/ b[c] # 0}
    IN IF nz = {} THEN <<>>
       ELSE LET j1 == CHOOSE c \in nz : \A e \in nz : c <= e
                top == IF a[j1] # 0 THEN a ELSE b
                bot == IF a[j1] # 0 THEN b ELSE a
                minor(c) == top[j1] * bot[c] - top[c] * bot[j1]
                free == {c \in 1..n : minor(c) # 0}
            IN IF free = {}
               THEN << [c \in 1..n |-> top[c] \div top[j1]] >>
               ELSE LET j2 == CHOOSE c \in free : \A e \in free : c <= e
                        det == minor(j2)
                    IN << [c \in 1..n |-> (top[c] * bot[j2] - top[j2] * bot[c]) \div det],
                          [c \in 1..n |-> minor(c) \div det] >>

\* lines 321-325: one vector per basis vector t, sum(t[i] / modules[i] * vcyls[i])
TwistVectors(modules, vcyls) ==
    LET basis == EchelonBasis([i \in 1..Len(modules) |-> modules[i][1]],
                              [i \in 1..Len(modules) |-> modules[i][2]])
    IN [k \in 1..Len(basis) |->
          VSum([i \in 1..Len(vcyls) |->
                  VScale(KMul(ToK(basis[k][i]), KInv(modules[i])), vcyls[i])])]

RECURSIVE ComponentLoop(_, _, _)
\* the loop of lines 303-314 from component k on
ComponentLoop(comps, k, st) ==
    IF k > Len(comps) THEN st
    ELSE LET comp == comps[k]
         IN CASE cylinder(comp) = "False" -> ComponentLoop(comps, k + 1, st)
              [] cylinder(comp) = "True" ->
                   IF ~comp.checks THEN [st EXCEPT !.status = "raised"]
                   ELSE ComponentLoop(comps, k + 1,
                          [st EXCEPT !.vcyls = Append(@, VScale(comp.width, VToK(comp.circ))),
                                     !.modules = Append(@, comp.modulus)])
              [] OTHER -> [st EXCEPT !.status = "empty"]

Raised == [called |-> TRUE, raised |-> TRUE, vectors |-> <<>>]
NotCalled == [called |-> FALSE, raised |-> FALSE, vectors |-> <<>>]
Returned(vs) == [called |-> TRUE, raised |-> FALSE, vectors |-> vs]

\* a version that gives up on a minimal component the way it does on an undetermined one
cds_minimal_empty(D, ring) ==
    IF ~D.cocycle THEN Raised
    ELSE LET st == ComponentLoop(D.components, 1,
                     [vcyls |-> <<>>, modules |-> <<>>, status |-> "run"])
         IN IF st.status = "raised" THEN Raised
            ELSE IF st.status = "empty"
                    \/ \E k \in 1..Len(D.components) : D.components[k].kind = "minimal"
                 THEN Returned(<<>>)
            ELSE IF ring \in {"ZZ", "QQ"} THEN Returned(<<VSum(st.vcyls)>>)
            ELSE Returned(TwistVectors(st.modules, st.vcyls))

\* a version that skips an undetermined component the way it skips a minimal one
cds_undetermined_skipped(D, ring) ==
    IF ~D.cocycle THEN Raised
    ELSE LET cs == SelectSeq(D.components, LAMBDA c : c.kind # "undetermined")
             st == ComponentLoop(cs, 1,
                     [vcyls |-> <<>>, modules |-> <<>>, status |-> "run"])
         IN IF st.status = "raised" THEN Raised
            ELSE IF ring \in {"ZZ", "QQ"} THEN Returned(<<VSum(st.vcyls)>>)
            ELSE Returned(TwistVectors(st.modules, st.vcyls))

\* a version that hands out the vector of each cylinder by itself over QQ
cds_rational_separate(D, ring) ==
    IF ~D.cocycle THEN Raised
    ELSE LET st == ComponentLoop(D.components, 1,
                     [vcyls |-> <<>>, modules |-> <<>>, status |-> "run"])
         IN IF st.status = "raised" THEN Raised
            ELSE IF st.status = "empty" THEN Returned(<<>>)
            ELSE IF ring \in {"ZZ", "QQ"} THEN Returned(st.vcyls)
            ELSE Returned(TwistVectors(st.modules, st.vcyls))

cylinder_deformation_subspace(D, ring) ==
    IF ~D.cocycle THEN Raised
    ELSE LET st == ComponentLoop(D.components, 1,
                     [vcyls |-> <<>>, modules |-> <<>>, status |-> "run"])
         IN IF st.status = "raised" THEN Raised
            ELSE IF st.status = "empty" THEN Returned(<<>>)
            ELSE IF ring \in {"ZZ", "QQ"} THEN Returned(<<VSum(st.vcyls)>>)
            ELSE Returned(TwistVectors(st.modules, st.vcyls))

(***************************************************************************)
(* Decomposition.kontsevich_zorich_cocycle: the combinatorics of a flow    *)
(* decomposition.  F.perimeter[i + 1] lists the saddle connections on the  *)
(* perimeter of component i, each a nonzero integer with -sc the reversed  *)
(* saddle connection; F.chain[k] is sc.chain() of the saddle connection    *)
(* k > 0, a vector over the edges of the surface.                          *)
(***************************************************************************)
\* components[i].perimeter()
perimeter(F, i) == F.perimeter[i + 1]

\* i = -i-1 for a negative entry of sc_index
sc_row(i) == IF i < 0 THEN -i - 1 ELSE i
\* s = -1 for a negative entry of sc_index, else 1
sc_sign(i) == IF i < 0 THEN -1 ELSE 1

RECURSIVE IndexLoop(_, _, _, _)
\* lines 168-176 from the p-th saddle connection of component i on
IndexLoop(F, i, p, st) ==
    IF i >= Len(F.perimeter) THEN st
    ELSE IF p > Len(perimeter(F, i)) THEN IndexLoop(F, i + 1, 1, st)
    ELSE LET sc == perimeter(F, i)[p]
         IN IF sc \in DOMAIN st.sc_index
            THEN IndexLoop(F, i, p + 1, [st EXCEPT !.sc_comp = (sc :> i) @@ @])
            ELSE IndexLoop(F, i, p + 1,
                   [sc_comp |-> (sc :> i) @@ st.sc_comp,
                    sc_index |-> (sc :> st.n) @@ ((-sc) :> (-st.n - 1)) @@ st.sc_index,
                    sc_pos |-> Append(st.sc_pos, sc),
                    n |-> st.n + 1])

RECURSIVE PerimeterVisit(_, _, _, _, _)
\* lines 117-122: `for sc in c.perimeter()` of component i from position p on
PerimeterVisit(F, sc_comp, i, p, st) ==
    IF st.raised # "none" \/ p > Len(perimeter(F, i)) THEN st
    ELSE LET sc1 == -perimeter(F, i)[p]
         IN IF sc1 \notin DOMAIN sc_comp THEN [st EXCEPT !.raised = "KeyError"]
            ELSE IF sc_comp[sc1] \in DOMAIN st.t
                 THEN PerimeterVisit(F, sc_comp, i, p + 1, st)
                 ELSE PerimeterVisit(F, sc_comp, i, p + 1,
                        [t |-> st.t @@ (sc_comp[sc1] :> sc1),
                         todo |-> Append(st.todo, sc_comp[sc1]),
                         edges |-> Append(st.edges, sc1),
                         raised |-> "none"])

RECURSIVE ComponentTreeLoop(_, _, _)
\* lines 114-122: while todo: i = todo.pop(); visit the perimeter of component i
ComponentTreeLoop(F, sc_comp, st) ==
    IF st.raised # "none" \/ st.todo = <<>> THEN st
    ELSE ComponentTreeLoop(F, sc_comp,
             PerimeterVisit(F, sc_comp, st.todo[Len(st.todo)], 1,
                 [st EXCEPT !.todo = SubSeq(st.todo, 1, Len(st.todo) - 1)]))

RECURSIVE PerimeterRow(_, _, _, _, _, _, _)
\* lines 139-151: the passes of `for p in comp.perimeter()` from position p on
PerimeterRow(m, per, p, sc_index, sc1, i1, s1) ==
    IF p > Len(per) THEN m
    ELSE IF per[p] = sc1 THEN PerimeterRow(m, per, p + 1, sc_index, sc1, i1, s1)
    ELSE PerimeterRow(
             [m EXCEPT ![i1 + 1] =
                 Tuple([c \in 1..Len(m) |->
                          -s1 * sc_sign(sc_index[per[p]])
                              * m[sc_row(sc_index[per[p]]) + 1][c]])],
             per, p + 1, sc_index, sc1, i1, s1)

\* a version that leaves the index in the spanning set
AfterRow_keeps_index(st, m, i1) ==
    [proj |-> m, spanning_set |-> st.spanning_set,
     raised |-> IF \A j \in 1..Len(m) : m[j][i1 + 1] = 0
                THEN "none" ELSE "AssertionError"]

\* lines 153-155: spanning_set.remove(i1) and the assertion on column i1
AfterRow(st, m, i1) ==
    IF i1 \notin st.spanning_set
    THEN [proj |-> m, spanning_set |-> st.spanning_set, raised |-> "KeyError"]
    ELSE [proj |-> m, spanning_set |-> st.spanning_set \ {i1},
          raised |-> IF \A j \in 1..Len(m) : m[j][i1 + 1] = 0
                     THEN "none" ELSE "AssertionError"]

RECURSIVE ComponentGaussLoop(_, _, _, _, _, _)
\* lines 128-155: `for sc1 in edges` from the k-th element on
ComponentGaussLoop(F, sc_index, sc_comp, edges, k, st) ==
    IF st.raised # "none" \/ k > Len(edges) THEN st
    ELSE ComponentGaussLoop(F, sc_index, sc_comp, edges, k + 1,
             AfterRow(st,
                 PerimeterRow(
                     [st.proj EXCEPT ![sc_row(sc_index[edges[k]]) + 1] =
                         Tuple([c \in 1..Len(st.proj) |-> 0])],
                     perimeter(F, sc_comp[edges[k]]), 1, sc_index, edges[k],
                     sc_row(sc_index[edges[k]]), sc_sign(sc_index[edges[k]])),
                 sc_row(sc_index[edges[k]])))

RECURSIVE sorted(_)
\* sorted(spanning_set)
sorted(s) ==
    IF s = {} THEN <<>>
    ELSE LET least == CHOOSE x \in s : \A y \in s : x <= y
         IN <<least>> \o sorted(s \ {least})

\* the tree of components and the elimination that follows it
TreeThenGauss(F, sc_index, sc_comp, n, tree) ==
    [t |-> tree.t, edges |-> tree.edges, n |-> n,
     gauss |-> ComponentGaussLoop(F, sc_index, sc_comp, Reverse(tree.edges), 1,
                   [proj |-> ZIdentity(n), spanning_set |-> 0..(n - 1),
                    raised |-> tree.raised])]

\* Decomposition._spanning_tree_decomposition(sc_index, sc_comp)
_spanning_tree_decomposition(F, sc_index, sc_comp) ==
    IF Cardinality(DOMAIN sc_index) % 2 # 0
    THEN [t |-> (0 :> 0), edges |-> <<>>, n |-> Cardinality(DOMAIN sc_index),
          gauss |-> [proj |-> <<>>, spanning_set |-> {}, raised |-> "AssertionError"]]
    ELSE TreeThenGauss(F, sc_index, sc_comp, Cardinality(DOMAIN sc_index) \div 2,
             ComponentTreeLoop(F, sc_comp,
                 [t |-> (0 :> 0), todo |-> <<0>>, edges |-> <<>>, raised |-> "none"]))

\* sc.chain() of a saddle connection of either orientation
chain(F, sc) ==
    IF sc > 0 THEN F.chain[sc] ELSE [e \in 1..Len(F.chain[-sc]) |-> -F.chain[-sc][e]]

RECURSIVE Det(_)
RECURSIVE DetSum(_, _)
\* the expansion of A.det() along the first row, from column c on
DetSum(A, c) ==
    IF c > Len(A) THEN 0
    ELSE (IF c % 2 = 1 THEN 1 ELSE -1) * A[1][c]
            * Det([i \in 1..(Len(A) - 1) |->
                     [j \in 1..(Len(A) - 1) |-> A[i + 1][IF j < c THEN j ELSE j + 1]]])
         + DetSum(A, c + 1)
\* A.det()
Det(A) == IF Len(A) = 0 THEN 1 ELSE DetSum(Tuple([i \in 1..Len(A) |-> Tuple(A[i])]), 1)

\* a test that lets every nonzero determinant through
is_unit_nonzero(x) == x # 0

\* x.is_unit() for an integer x
is_unit(x) == x \in {1, -1}

\* lines 184-193: the rows of A and the assertion on its determinant
BaseChange(O, F, idx, st, ss, pr) ==
    LET A == [i \in 1..Len(ss) |-> ZApply(O.proj, chain(F, idx.sc_pos[ss[i] + 1]))]
    IN [raised |-> IF is_unit(Det(A)) THEN "none" ELSE "AssertionError",
        line |-> IF is_unit(Det(A)) THEN 0 ELSE 192,
        A |-> A, sc_index |-> idx.sc_index, sc_comp |-> idx.sc_comp, proj |-> pr,
        t |-> st.t, edges |-> st.edges, spanning_set |-> ss, m |-> st.gauss.proj,
        n |-> idx.n]

\* the call of kontsevich_zorich_cocycle left by an exception at the line
CocycleRaised(how, line, idx, st) ==
    [raised |-> how, line |-> line, A |-> <<>>, sc_index |-> idx.sc_index,
     sc_comp |-> idx.sc_comp, proj |-> <<>>, t |-> st.t, edges |-> st.edges,
     spanning_set |-> sorted(st.gauss.spanning_set), m |-> st.gauss.proj, n |-> idx.n]

\* lines 178-182: the assertions on what _spanning_tree_decomposition returns
CocycleChecked(O, F, idx, st) ==
    IF st.gauss.raised # "none" THEN CocycleRaised(st.gauss.raised, 157, idx, st)
    ELSE IF ~(/\ Rank(MToK(st.gauss.proj)) = Cardinality(st.gauss.spanning_set)
              /\ Cardinality(st.gauss.spanning_set) = idx.n - Len(F.perimeter) + 1)
         THEN CocycleRaised("AssertionError", 179, idx, st)
    ELSE IF Len(NonZeroRows(Transpose(st.gauss.proj))) # Len(O.proj)
         THEN CocycleRaised("AssertionError", 182, idx, st)
    ELSE BaseChange(O, F, idx, st, sorted(st.gauss.spanning_set),
                    NonZeroRows(Transpose(st.gauss.proj)))

\* lines 163-177: the indices, then the tree and the elimination
CocycleIndexed(O, F, idx) ==
    CocycleChecked(O, F, idx, _spanning_tree_decomposition(F, idx.sc_index, idx.sc_comp))

\* Decomposition.kontsevich_zorich_cocycle() for the driver O
kontsevich_zorich_cocycle(O, F) ==
    CocycleIndexed(O, F,
        IndexLoop(F, 0, 1, [sc_comp |-> <<>>, sc_index |-> <<>>, sc_pos |-> <<>>, n |-> 0]))

\* an undetermined component for which the adapter reports the modulus m
UndeterminedOf(d, m) == [Undetermined(d) EXCEPT !.modulus = m]

\* x / y for a unit y
KDiv(x, y) == KMul(x, KInv(y))

\* x.is_rational()
is_rational(x) == x[2] = 0

RECURSIVE ParabolicLoop(_, _, _, _)
\* the loop of lines 238-254 from component k on; mod0 is None or <<mod0>>
ParabolicLoop(comps, k, state, mod0) ==
    IF k > Len(comps) THEN state
    ELSE IF cylinder(comps[k]) = "False" THEN "False"
    ELSE IF mod0 = <<>>
         THEN ParabolicLoop(comps, k + 1,
                  IF cylinder(comps[k]) # "True" THEN "Unknown" ELSE state,
                  <<comps[k].modulus>>)
         ELSE IF ~is_rational(KDiv(comps[k].modulus, mod0[1])) THEN "False"
              ELSE ParabolicLoop(comps, k + 1,
                       IF cylinder(comps[k]) # "True" THEN "Unknown" ELSE state, mod0)

\* a version that passes over the minimal components
parabolic_skips_minimal(D, ring) ==
    IF ring \in {"ZZ", "QQ"} THEN "True"
    ELSE ParabolicLoop(SelectSeq(D.components, LAMBDA c : c.kind # "minimal"),
                       1, "True", <<>>)

\* Decomposition.parabolic(): "True", "False" or "Unknown"
parabolic(D, ring) ==
    IF ring \in {"ZZ", "QQ"} THEN "True"
    ELSE ParabolicLoop(D.components, 1, "True", <<>>)

(***************************************************************************)
(* decompositions_depth_first: the enumeration of directions.              *)
(***************************************************************************)
MaxBound == 2

\* the vectors (x, y) of the grid of half-width b, row by row
Grid(b) == [k \in 1..((2 * b + 1) * (2 * b + 1)) |->
              <<((k - 1) \div (2 * b + 1)) - b, ((k - 1) % (2 * b + 1)) - b>>]

\* surface.saddle_connections(Bound(bound, 0)): the vectors of the saddle
\* connections of length at most bound, in the order the adapter gives them
saddle_connections(bound) ==
    SelectSeq(Grid(bound),
              LAMBDA v : v # <<0, 0>> /\ v[1] * v[1] + v[2] * v[2] <= bound * bound)

\* the rational a / b in lowest terms with a positive denominator
Frac(a, b) ==
    LET g == Gcd(a, b)
        sg == IF b < 0 THEN -1 ELSE 1
    IN <<(sg * a) \div g, (sg * b) \div g>>

\* the vector itself taken as the slope
slope_not_normalised(v) == <<Frac(v[1], 1), Frac(v[2], 1)>>

\* lines 782-786: (1, 0) for a horizontal vector, else the vector divided by
\* its second coordinate
slope(v) ==
    IF v[2] = 0 THEN <<Frac(1, 1), Frac(0, 1)>>
    ELSE <<Frac(v[1], v[2]), Frac(v[2], v[2])>>

\* a * y > b * x for integers a, b and rationals x, y
CrossPositive(a, y, b, x) == a * y[1] * x[2] > b * x[1] * y[2]

\* is_between(e0, e1, f): f lies strictly inside the sector that goes
\* counterclockwise from e0 to e1
is_between(e0, e1, f) ==
    IF e0[1] * e1[2] > e1[1] * e0[2]
    THEN CrossPositive(e1[2], f[1], e1[1], f[2]) /\ CrossPositive(e0[1], f[2], e0[2], f[1])
    ELSE IF e0[1] * e1[2] = e1[1] * e0[2]
    THEN CrossPositive(e0[1], f[2], e0[2], f[1])
    ELSE CrossPositive(e0[1], f[2], e0[2], f[1]) \/ CrossPositive(e1[2], f[1], e1[1], f[2])

\* an optional argument: None, or the one-element tuple of what is passed
None == <<>>

\* the sectors a caller asks for: none, the open first quadrant, and the
\* sector from (0, 1) counterclockwise round to (1, 0)
Sectors == {None, << <<1, 0>>, <<0, 1>> >>, << <<0, 1>>, <<1, 0>> >>}

\* a generator that forgets what the caller passed as visited
InitialVisited_always_fresh(visited) == {}

\* if visited is None: visited = set()
InitialVisited(visited) == IF visited = None THEN {} ELSE visited[1]

\* visited.add(slope)
visited_add(visited, sl) == visited \cup {sl}

NoGenerator(sector, shared) ==
    [active |-> FALSE, conns |-> <<>>, sector |-> sector, shared |-> shared,
     bound |-> 0, visited |-> {}]

\* the call decompositions_depth_first(bound, limit, sector, visited)
decompositions_depth_first(bound, sector, visited) ==
    [active |-> TRUE, conns |-> saddle_connections(bound), sector |-> sector,
     shared |-> visited # None, bound |-> bound, visited |-> InitialVisited(visited)]

RECURSIVE Skipped(_, _, _)
\* the number of leading connections that the loop passes with `continue`
Skipped(conns, sector, visited) ==
    IF conns = <<>> THEN 0
    ELSE LET sl == slope(Head(conns))
         IN IF sector # None /\ ~is_between(sector[1], sector[2], sl)
            THEN 1 + Skipped(Tail(conns), sector, visited)
            ELSE IF sl \in visited THEN 1 + Skipped(Tail(conns), sector, visited)
            ELSE 0

\* a generator that stops once the accumulator of the driver is full
resume_until_saturated(g, O) ==
    LET k == Skipped(g.conns, g.sector, g.visited)
    IN IF k >= Len(g.conns) \/ O.U_rank = Len(O.U)
       THEN [gen |-> [g EXCEPT !.active = FALSE, !.conns = <<>>], O |-> O,
             yielded |-> FALSE, v |-> <<0, 0>>]
       ELSE [gen |-> [g EXCEPT !.conns = SubSeq(@, k + 2, Len(@)),
                               !.visited = visited_add(@, slope(g.conns[k + 1]))],
             O |-> O, yielded |-> TRUE, v |-> g.conns[k + 1]]

\* next() on the generator g of the driver O: the loop of lines 780-793 runs
\* up to its next yield, or to the end of the saddle connections
resume(g, O) ==
    LET k == Skipped(g.conns, g.sector, g.visited)
    IN IF k >= Len(g.conns)
       THEN [gen |-> [g EXCEPT !.active = FALSE, !.conns = <<>>], O |-> O,
             yielded |-> FALSE, v |-> <<0, 0>>]
       ELSE [gen |-> [g EXCEPT !.conns = SubSeq(@, k + 2, Len(@)),
                               !.visited = visited_add(@, slope(g.conns[k + 1]))],
             O |-> O, yielded |-> TRUE, v |-> g.conns[k + 1]]

(***************************************************************************)
(* The accumulator: update_tangent_space_from_flow_decomposition.          *)
(***************************************************************************)
\* a rank that counts the nonzero rows
A_rank_nonzero_rows(A) == Cardinality({k \in 1..Len(A) : ~VIsZero(A[k])})

\* r = A.rank()
A_rank(A) == Rank(A)

\* the candidate written over the last committed row
WriteRow_previous(A, i, v) ==
    [A EXCEPT ![i] = IF v = PyZero THEN VZero(Len(A)) ELSE v]

\* A[i] = v (i is 0-based; the int 0 fills the row with zeros)
WriteRow(A, i, v) ==
    [A EXCEPT ![i + 1] = IF v = PyZero THEN VZero(Len(A)) ELSE v]

RankIncreased_or_equal(r, i) == r >= i

\* if r > i
RankIncreased(r, i) == r > i

Commit_twice(i) == i + 2

\* i = self._U_rank = i + 1
Commit(i) == i + 1

IsFull_off_by_one(A, r) == r > Len(A)

\* self._U_rank == self._U.nrows()
IsFull(A, r) == r = Len(A)

Finished(A, i, how, res, log) ==
    [U |-> A, U_rank |-> i, outcome |-> how, result |-> res, writes |-> log]

RECURSIVE InsertLoop(_, _, _, _, _, _)
\* the loop of lines 879-886 from the k-th vector on
InsertLoop(A, i, vs, k, res, log) ==
    IF k > Len(vs) THEN Finished(A, i, "returned", res, log)
    ELSE IF i >= Len(A) THEN Finished(A, i, "IndexError", res, log)
    ELSE LET A1 == WriteRow(A, i, vs[k])
             r == A_rank(A1)
             entry(c) == [row |-> i, v |-> A1[i + 1], rank |-> r, committed |-> c]
         IN IF RankIncreased(r, i)
            THEN IF r # i + 1
                 THEN Finished(A1, i, "rank_assertion", res, Append(log, entry(FALSE)))
                 ELSE IF IsFull(A1, Commit(i))
                      THEN Finished(A1, Commit(i), "returned", res, Append(log, entry(TRUE)))
                      ELSE InsertLoop(A1, Commit(i), vs, k + 1, res, Append(log, entry(TRUE)))
            ELSE InsertLoop(A1, i, vs, k + 1, res, Append(log, entry(FALSE)))

\* the index of the first cylinder whose cross-checks fail, 0 if there is none
FirstFailing(D) ==
    LET bad == {k \in 1..Len(D.components) :
                  D.components[k].kind = "cylinder" /\ ~D.components[k].checks}
    IN IF bad = {} THEN 0 ELSE CHOOSE k \in bad : \A j \in bad : k <= j

\* a version that inserts the vectors of the components met before the failure
update_partial(A, i, D, ring) ==
    IF IsFull(A, i) THEN Finished(A, i, "returned", NotCalled, <<>>)
    ELSE LET res == cylinder_deformation_subspace(D, ring)
             k == FirstFailing(D)
             before == cylinder_deformation_subspace(
                           [D EXCEPT !.components = SubSeq(@, 1, k - 1)], ring)
         IN IF res.raised /\ k > 1 /\ ~before.raised
            THEN LET part == InsertLoop(A, i, before.vectors, 1, res, <<>>)
                 IN [part EXCEPT !.outcome = "derivation_raised"]
            ELSE IF res.raised THEN Finished(A, i, "derivation_raised", res, <<>>)
            ELSE InsertLoop(A, i, res.vectors, 1, res, <<>>)

update_tangent_space_from_flow_decomposition(A, i, D, ring) ==
    IF IsFull(A, i) THEN Finished(A, i, "returned", NotCalled, <<>>)
    ELSE LET res == cylinder_deformation_subspace(D, ring)
         IN IF res.raised THEN Finished(A, i, "derivation_raised", res, <<>>)
            ELSE InsertLoop(A, i, res.vectors, 1, res, <<>>)

\* dimension()
dimension == U_rank

\* tangent_space_basis()
tangent_space_basis == SubSeq(U, 1, U_rank)

(***************************************************************************)
(* __init__                                                                *)
(***************************************************************************)
__init__(S) ==
    LET st == _spanning_tree(S, DefaultRoot)
        fs == _faces(S)
        ss == SpanningSet(S, st.t)
        d == Len(ss)
        h == HolonomyMatrix(S, ss)
        im == _intersection_matrix(S, st.t, ss)
    IN [t |-> st.t,
        spanning_set |-> ss,
        proj |-> NonZeroRows(Transpose(st.proj)),
        Omega |-> im.Omega,
        H |-> h,
        U |-> InitU(h, d),
        U_rank |-> 2,
        ok |-> /\ st.ok
               /\ DOMAIN st.t = {fs[k][1] : k \in 1..Len(fs)}
               /\ 3 * d - 3 = size(S)
               /\ Rank(MToK(st.proj)) = d
               /\ im.ok]

d == Len(spanning_set)

(***************************************************************************)
(* GL2ROrbitClosure(surface): the constructor as the caller sees it.       *)
(***************************************************************************)
\* an object of class TranslationSurface whose half-edge structure is S
TranslationSurface(S) == [cls |-> "TranslationSurface", S |-> S]

\* the direct base classes written in the class statements
Bases ==
    [c \in {"TranslationSurface", "DilationSurface", "SimilaritySurface", "Origami",
            "AbstractOrigami", "MinimalTranslationCover", "HalfTranslationSurface",
            "HalfDilationSurface", "Surface", "SageObject"} |->
        CASE c = "TranslationSurface" -> {"HalfTranslationSurface", "DilationSurface"}
          [] c = "DilationSurface" -> {"HalfDilationSurface"}
          [] c = "SimilaritySurface" -> {"SageObject"}
          [] c = "Origami" -> {"AbstractOrigami"}
          [] c = "AbstractOrigami" -> {"Surface"}
          [] c = "MinimalTranslationCover" -> {"Surface"}
          [] OTHER -> {}]

RECURSIVE Ancestors(_)
Ancestors(c) == {c} \cup UNION {Ancestors(b) : b \in Bases[c]}

\* a test that lets every object through
isinstance_anything(x, C) == TRUE

\* isinstance(x, C)
isinstance(x, C) == C \in Ancestors(x.cls)

\* to_pyflatsurf(surface): the half-edge structure of the surface
to_pyflatsurf(x) == x.S

\* self._surface before line 390
NoSurface == [nE |-> 0, ring |-> "QQ", nif |-> <<>>, vec |-> <<>>]

\* a constructor none of whose assertions fails
FailedAssertion_none(S) == 0

\* the line of the first assertion of __init__ (and of what it calls) that
\* fails for S, 0 if none does
FailedAssertion(S) ==
    LET st == _spanning_tree(S, DefaultRoot)
        fs == _faces(S)
        ss == SpanningSet(S, st.t)
    IN IF ~st.ok THEN 642
       ELSE IF DOMAIN st.t # {fs[k][1] : k \in 1..Len(fs)} THEN 397
       ELSE IF 3 * Len(ss) - 3 # size(S) THEN 404
       ELSE IF Rank(MToK(st.proj)) # Len(ss) THEN 405
       ELSE IF ~_intersection_matrix(S, st.t, ss).ok THEN 678
       ELSE 0

\* the attributes of an object on which __init__ has assigned nothing
Unbuilt ==
    [raised |-> "none", line |-> 0, surface |-> NoSurface, t |-> <<>>,
     spanning_set |-> <<>>, proj |-> <<>>, Omega |-> <<>>, H |-> <<>>, U |-> <<>>,
     U_rank |-> 0, ok |-> FALSE]

\* what has been assigned when __init__ returns (line = 0) or raises at line;
\* o holds what the assignments of __init__ compute
Assigned(S, line, o) ==
    IF line = 0
    THEN [raised |-> "none", line |-> 0, surface |-> S, t |-> o.t,
          spanning_set |-> o.spanning_set, proj |-> o.proj, Omega |-> o.Omega,
          H |-> o.H, U |-> o.U, U_rank |-> o.U_rank, ok |-> o.ok]
    ELSE [Unbuilt EXCEPT
            !.raised = "AssertionError",
            !.line = line,
            !.surface = S,
            !.spanning_set = IF line \in {404, 405, 678} THEN o.spanning_set ELSE @,
            !.proj = IF line = 678 THEN o.proj ELSE @]

\* GL2ROrbitClosure(x): what has been assigned when __init__ returns or raises
GL2ROrbitClosure(x) ==
    IF ~isinstance(x, "TranslationSurface")
    THEN [Unbuilt EXCEPT !.raised = "ValueError", !.line = 389]
    ELSE Assigned(to_pyflatsurf(x), FailedAssertion(to_pyflatsurf(x)),
                  __init__(to_pyflatsurf(x)))

(***************************************************************************)
(* Specifications.                                                         *)
(***************************************************************************)
\* the surfaces the accumulator is explored on
Surfaces ==
    {Torus, TwoSquares(KOne, "QQ"), TwoSquares(Sqrt2, "K"), LShape(KOne, "QQ"),
     LShape(Sqrt2, "K")}

\* every surface above under every reorientation of its edges
RelabelledSurfaces ==
    {Relabel(S, F) : S \in {Torus}, F \in SUBSET (1..3)}
    \cup {Relabel(S, F) : S \in {TwoSquares(KOne, "QQ"), TwoSquares(Sqrt2, "K")},
                          F \in SUBSET (1..6)}
    \cup {Relabel(S, F) : S \in {LShape(KOne, "QQ"), LShape(Sqrt2, "K")},
                          F \in SUBSET (1..9)}

NoCall == [op |-> "none", arg |-> <<>>, value |-> <<>>]

Idle ==
    /\ dec = NoDecomposition
    /\ result = NotCalled
    /\ outcome = "none"
    /\ writes = <<>>
    /\ call = NoCall

\* no enumeration has been asked for
NotExploring ==
    /\ input = TranslationSurface(surface)
    /\ raised = "none"
    /\ gen = NoGenerator(None, FALSE)
    /\ caller_visited = {}
    /\ yields = <<>>
    /\ earlier = [bound |-> 0, vs |-> <<>>]

Constructed(S) ==
    \E o \in {__init__(S)} :
       /\ t = o.t
       /\ spanning_set = o.spanning_set
       /\ proj = o.proj
       /\ Omega = o.Omega
       /\ H = o.H
       /\ U = o.U
       /\ U_rank = o.U_rank
       /\ initOK = o.ok

\* the state right after GL2ROrbitClosure(S)
Init ==
    /\ surface \in Surfaces
    /\ Constructed(surface)
    /\ pc = "idle"
    /\ Idle
    /\ NotExploring

\* d = O.decomposition(v, limit): the adapter hands out a decomposition
decomposition ==
    /\ pc = "idle"
    /\ dec' \in Decompositions(d, surface.ring)
    /\ pc' = "pending"
    /\ UNCHANGED <<surface, t, spanning_set, proj, H, U, U_rank, initOK,
                   result, outcome, writes, Omega, call>>
    /\ UNCHANGED callers

\* O.update_tangent_space_from_flow_decomposition(d)
update ==
    /\ pc = "pending"
    /\ LET o == update_tangent_space_from_flow_decomposition(U, U_rank, dec, surface.ring)
       IN /\ U' = o.U
          /\ U_rank' = o.U_rank
          /\ result' = o.result
          /\ outcome' = o.outcome
          /\ writes' = o.writes
    /\ pc' = "returned"
    /\ UNCHANGED <<surface, t, spanning_set, proj, H, initOK, dec, Omega, call>>
    /\ UNCHANGED callers

\* the caller lets go of the decomposition and asks for the next direction
next_direction ==
    /\ pc = "returned"
    /\ pc' = "idle"
    /\ dec' = NoDecomposition
    /\ result' = NotCalled
    /\ outcome' = "none"
    /\ writes' = <<>>
    /\ UNCHANGED <<surface, t, spanning_set, proj, H, U, U_rank, initOK, Omega, call>>
    /\ UNCHANGED callers

Next == decomposition \/ update \/ next_direction

Spec == Init /\ [][Next]_vars

\* GL2ROrbitClosure(S) for a surface S handed in by the caller
InitConstruct ==
    /\ surface \in RelabelledSurfaces
    /\ pc = "constructing"
    /\ t = <<>>
    /\ spanning_set = <<>>
    /\ proj = <<>>
    /\ Omega = <<>>
    /\ H = <<>>
    /\ U = <<>>
    /\ U_rank = 0
    /\ initOK = FALSE
    /\ Idle
    /\ NotExploring

construct ==
    /\ pc = "constructing"
    /\ \E o \in {__init__(surface)} :
          /\ t' = o.t
          /\ spanning_set' = o.spanning_set
          /\ proj' = o.proj
          /\ Omega' = o.Omega
          /\ H' = o.H
          /\ U' = o.U
          /\ U_rank' = o.U_rank
          /\ initOK' = o.ok
    /\ pc' = "idle"
    /\ UNCHANGED <<surface, dec, result, outcome, writes, call>>
    /\ UNCHANGED callers

\* the vectors handed to lift: the vectors of the spanning-set basis, the rows
\* of tangent_space_basis() and a vector with distinct coordinates
LiftArguments ==
    {VToK(UnitVector(d, k)) : k \in 1..d}
    \cup {tangent_space_basis[k] : k \in 1..U_rank}
    \cup {[k \in 1..d |-> <<k, k - 2>>]}

\* O.lift(v)
lift_call ==
    /\ pc = "idle"
    /\ \E v \in LiftArguments :
          call' = [op |-> "lift", arg |-> v, value |-> lift(surface, spanning_set, v)]
    /\ pc' = "lifted"
    /\ UNCHANGED <<surface, t, spanning_set, proj, H, U, U_rank, initOK, Omega,
                   dec, result, outcome, writes>>
    /\ UNCHANGED callers

\* O._spanning_tree(root) on a constructed driver, from any half-edge
spanning_tree_call ==
    /\ pc = "idle"
    /\ \E root \in DOMAIN surface.nif :
          LET st == _spanning_tree(surface, root)
          IN call' = [op |-> "_spanning_tree", arg |-> root,
                      value |-> [t |-> st.t, edges |-> st.edges, proj |-> st.proj,
                                 ok |-> st.ok]]
    /\ pc' = "called"
    /\ UNCHANGED <<surface, t, spanning_set, proj, H, U, U_rank, initOK, Omega,
                   dec, result, outcome, writes>>
    /\ UNCHANGED callers

\* the spanning set that belongs to a tree, handed to _intersection_matrix
WithSpanningSet(S, tree, ss) ==
    [t |-> tree, spanning_set |-> ss, value |-> _intersection_matrix(S, tree, ss)]

\* O._intersection_matrix(t, spanning_set) for the tree grown from the face
\* of the first edge, from the face across it, or from the face of the last
intersection_matrix_call ==
    /\ pc = "idle"
    /\ \E root \in {DefaultRoot, -DefaultRoot, size(surface)} :
        \E o \in {WithSpanningSet(surface, _spanning_tree(surface, root).t,
                      SpanningSet(surface, _spanning_tree(surface, root).t))} :
          call' = [op |-> "_intersection_matrix",
                   arg |-> [t |-> o.t, spanning_set |-> o.spanning_set],
                   value |-> o.value]
    /\ pc' = "called"
    /\ UNCHANGED <<surface, t, spanning_set, proj, H, U, U_rank, initOK, Omega,
                   dec, result, outcome, writes>>
    /\ UNCHANGED callers

NextConstruct == construct \/ lift_call \/ spanning_tree_call \/ intersection_matrix_call

SpecConstruct == InitConstruct /\ [][NextConstruct]_vars

\* the surfaces whose directions are enumerated
ExploredSurfaces == {Torus, TwoSquares(KOne, "QQ")}

\* what the adapter makes of one direction: a decomposition of one component
FlowDecompositions ==
    {D \in Decompositions(d, surface.ring) : Len(D.components) = 1 /\ D.cocycle}

\* a driver and a caller that asks for the directions of one sector and either
\* passes the same set as visited= to every enumeration or passes none
InitExplore ==
    /\ surface \in ExploredSurfaces
    /\ Constructed(surface)
    /\ pc = "idle"
    /\ Idle
    /\ \E sector \in Sectors, shared \in BOOLEAN : gen = NoGenerator(sector, shared)
    /\ caller_visited = {}
    /\ yields = <<>>
    /\ earlier = [bound |-> 0, vs |-> <<>>]
    /\ input = TranslationSurface(surface)
    /\ raised = "none"

\* g = O.decompositions(bound, limit, sector, visited), the earlier generator
\* being exhausted
decompositions ==
    /\ pc = "idle"
    /\ ~gen.active
    /\ \E bound \in 1..MaxBound :
          gen' = decompositions_depth_first(bound, gen.sector,
                     IF gen.shared THEN <<caller_visited>> ELSE None)
    /\ earlier' = [bound |-> gen.bound, vs |-> yields]
    /\ yields' = <<>>
    /\ UNCHANGED <<surface, pc, t, spanning_set, proj, H, U, U_rank, initOK,
                   dec, result, outcome, writes, Omega, call, caller_visited,
                   input, raised>>

\* next(g): the generator runs to its next yield and hands out the
\* decomposition of the direction, or ends
next ==
    /\ pc = "idle"
    /\ gen.active
    /\ LET o == resume(gen, [U |-> U, U_rank |-> U_rank])
       IN /\ gen' = o.gen
          /\ U' = o.O.U
          /\ U_rank' = o.O.U_rank
          /\ caller_visited' = IF gen.shared THEN o.gen.visited ELSE caller_visited
          /\ IF o.yielded
             THEN /\ yields' = Append(yields, o.v)
                  /\ dec' \in FlowDecompositions
                  /\ pc' = "pending"
             ELSE UNCHANGED <<yields, dec, pc>>
    /\ UNCHANGED <<surface, t, spanning_set, proj, H, initOK,
                   result, outcome, writes, Omega, call, earlier, input, raised>>

\* the caller lets go of a decomposition without passing it to the update
drop ==
    /\ pc = "pending"
    /\ gen.bound > 0
    /\ pc' = "idle"
    /\ dec' = NoDecomposition
    /\ UNCHANGED <<surface, t, spanning_set, proj, H, U, U_rank, initOK,
                   result, outcome, writes, Omega, call>>
    /\ UNCHANGED callers

NextExplore == decompositions \/ next \/ update \/ next_direction \/ drop

SpecExplore == InitExplore /\ [][NextExplore]_vars

(***************************************************************************)
(* decompositions_breadth_first: the enumeration by increasing bound.      *)
(***************************************************************************)
\* the names bound at the top level of gl2r_orbit_closure.py
ModuleGlobals ==
    {"cppyy", "RealEmbeddedNumberField", "pyflatsurf", "Vertex", "VectorSpace",
     "FreeModule", "matrix", "identity_matrix", "ZZ", "QQ", "Unknown", "vector",
     "subfield_from_elements", "is_between", "projectivization",
     "TranslationSurface", "to_pyflatsurf", "Decomposition", "GL2ROrbitClosure"}

\* the evaluation of a name in a method of the module: a name the module
\* does not bind raises NameError
NameBound(name) == name \in ModuleGlobals

\* the call decompositions_breadth_first(bound, limit, sector, visited): the
\* generator stands before `for i in range(bound + 1)`, no inner loop open
decompositions_breadth_first(bound, sector, visited) ==
    [active |-> TRUE, i |-> 0, opened |-> FALSE, conns |-> <<>>,
     sector |-> sector, shared |-> visited # None, bound |-> bound,
     visited |-> InitialVisited(visited), raised |-> "none"]

RECURSIVE resume_breadth_first(_)
\* next() on the generator g: lines 799-814 run up to the next yield, to the
\* end of range(bound + 1), or to an exception, which ends the generator
resume_breadth_first(g) ==
    IF ~g.opened
    THEN IF g.i > g.bound
         THEN [gen |-> [g EXCEPT !.active = FALSE], yielded |-> FALSE, v |-> <<0, 0>>]
         ELSE IF ~NameBound("flatsurf")
         THEN [gen |-> [g EXCEPT !.active = FALSE, !.raised = "NameError"],
               yielded |-> FALSE, v |-> <<0, 0>>]
         ELSE resume_breadth_first([g EXCEPT !.opened = TRUE,
                                             !.conns = saddle_connections(g.i)])
    ELSE LET k == Skipped(g.conns, g.sector, g.visited)
         IN
           IF k >= Len(g.conns)
           THEN resume_breadth_first([g EXCEPT !.opened = FALSE, !.i = @ + 1,
                                               !.conns = <<>>])
           ELSE [gen |-> [g EXCEPT !.conns = SubSeq(@, k + 2, Len(@)),
                                   !.visited = visited_add(@, slope(g.conns[k + 1]))],
                 yielded |-> TRUE, v |-> g.conns[k + 1]]

\* the sets a caller passes as visited=
GivenVisited == SUBSET {slope(<<1, 0>>), slope(<<0, 1>>), slope(<<1, 1>>)}

\* a driver and a caller that asks for the directions of one sector by
\* increasing bound, passing a set of its own as visited= or none
InitBreadth ==
    /\ surface \in ExploredSurfaces
    /\ Constructed(surface)
    /\ pc = "idle"
    /\ Idle
    /\ \E sector \in Sectors, shared \in BOOLEAN : gen = NoGenerator(sector, shared)
    /\ caller_visited \in GivenVisited
    /\ yields = <<>>
    /\ earlier = [bound |-> 0, vs |-> <<>>]
    /\ input = TranslationSurface(surface)
    /\ raised = "none"

\* g = O.decompositions_breadth_first(bound, limit, sector, visited), the
\* earlier generator being finished
decompositions_breadth_first_call ==
    /\ pc = "idle"
    /\ ~gen.active
    /\ \E bound \in 0..MaxBound :
          gen' = decompositions_breadth_first(bound, gen.sector,
                     IF gen.shared THEN <<caller_visited>> ELSE None)
    /\ earlier' = [bound |-> gen.bound, vs |-> yields]
    /\ yields' = <<>>
    /\ UNCHANGED <<surface, pc, t, spanning_set, proj, H, U, U_rank, initOK,
                   dec, result, outcome, writes, Omega, call, caller_visited,
                   input, raised>>

\* next(g) on the breadth-first generator; the caller looks at the
\* decomposition it is handed and lets go of it
next_breadth_first ==
    /\ pc = "idle"
    /\ gen.active
    /\ \E o \in {resume_breadth_first(gen)} :
          /\ gen' = o.gen
          /\ caller_visited' = IF gen.shared THEN o.gen.visited ELSE caller_visited
          /\ IF o.yielded
             THEN /\ yields' = Append(yields, o.v)
                  /\ dec' \in FlowDecompositions
             ELSE UNCHANGED <<yields, dec>>
    /\ UNCHANGED <<surface, pc, t, spanning_set, proj, H, U, U_rank, initOK,
                   result, outcome, writes, Omega, call, earlier, input, raised>>

NextBreadth == decompositions_breadth_first_call \/ next_breadth_first

SpecBreadth == InitBreadth /\ [][NextBreadth]_vars

RECURSIVE NextOnPerimeter(_, _, _)
\* the next half-edge around a polygon made of the triangles of S glued
\* along the edges of R
NextOnPerimeter(S, R, g) ==
    IF Abs(g) \in R THEN NextOnPerimeter(S, R, nextInFace(S, -g)) ELSE g

RECURSIVE PerimeterFrom(_, _, _, _)
PerimeterFrom(S, R, h0, per) ==
    LET g == NextOnPerimeter(S, R, nextInFace(S, per[Len(per)]))
    IN IF g = h0 THEN per ELSE PerimeterFrom(S, R, h0, Append(per, g))

RECURSIVE PerimetersLoop(_, _, _, _, _)
PerimetersLoop(S, R, k, seen, pers) ==
    IF k > 2 * S.nE THEN pers
    ELSE LET h == HalfEdgeOrder(S)[k]
         IN IF h \in seen \/ Abs(h) \in R THEN PerimetersLoop(S, R, k + 1, seen, pers)
            ELSE PerimetersLoop(S, R, k + 1,
                     seen \cup {PerimeterFrom(S, R, h, <<h>>)[p] :
                                  p \in 1..Len(PerimeterFrom(S, R, h, <<h>>))},
                     Append(pers, PerimeterFrom(S, R, h, <<h>>)))

\* the edges of the spanning tree of S grown from root
TreeEdges(S, root) ==
    {Abs(_spanning_tree(S, root).edges[k]) : k \in 1..(Len(_faces(S)) - 1)}

\* the flow decompositions of S whose components are the triangles of S
\* glued along some edges of a spanning tree, each saddle connection being
\* an edge of S
ProperCombinatorics(S) ==
    {[perimeter |-> PerimetersLoop(S, R, 1, {}, <<>>),
      chain |-> [k \in 1..S.nE |-> UnitVector(S.nE, k)]] :
        R \in UNION {SUBSET TreeEdges(S, root) : root \in {DefaultRoot, -DefaultRoot, S.nE}}}

\* the same with the chain of one saddle connection multiplied by 0 or 2
FlowCombinatorics(S) ==
    ProperCombinatorics(S)
    \cup {[F EXCEPT !.chain[k] = [e \in 1..S.nE |-> f * F.chain[k][e]]] :
             F \in ProperCombinatorics(S), k \in 1..S.nE, f \in {0, 2}}

InitCocycle ==
    /\ surface \in Surfaces
    /\ Constructed(surface)
    /\ pc = "idle"
    /\ Idle
    /\ NotExploring

\* Decomposition(O, F, u).kontsevich_zorich_cocycle()
kontsevich_zorich_cocycle_call ==
    /\ pc = "idle"
    /\ \E F \in FlowCombinatorics(surface) :
          call' = [op |-> "kontsevich_zorich_cocycle", arg |-> F,
                   value |-> kontsevich_zorich_cocycle([proj |-> proj, d |-> d], F)]
    /\ pc' = "called"
    /\ UNCHANGED <<surface, t, spanning_set, proj, H, U, U_rank, initOK, Omega,
                   dec, result, outcome, writes>>
    /\ UNCHANGED callers

NextCocycle == kontsevich_zorich_cocycle_call

SpecCocycle == InitCocycle /\ [][NextCocycle]_vars

\* the components the adapter reports in a direction: cylinders and
\* undetermined components of either modulus, and minimal components
CurveComponents(ring) ==
    {c \in Cylinders(d, ring) : c.checks /\ c.circ = UnitVector(d, 1)}
    \cup {Minimal(d)}
    \cup {UndeterminedOf(d, m) : m \in Moduli(ring)}

CurveDecompositions ==
    {[components |-> cs, cocycle |-> TRUE] :
        cs \in SeqsUpTo(CurveComponents(surface.ring), MaxComponents)}

InitCurve ==
    /\ surface \in Surfaces
    /\ Constructed(surface)
    /\ pc = "idle"
    /\ Idle
    /\ NotExploring

\* O.is_teichmueller_curve(bound, limit) up to the start of its loop
is_teichmueller_curve ==
    /\ pc = "idle"
    /\ call.op = "none"
    /\ \E bound \in 0..MaxBound :
          IF surface.ring \in {"ZZ", "QQ"}
          THEN /\ call' = [op |-> "is_teichmueller_curve", arg |-> bound, value |-> "True"]
               /\ pc' = "answered"
               /\ UNCHANGED gen
          ELSE /\ call' = [op |-> "is_teichmueller_curve", arg |-> bound, value |-> "running"]
               /\ pc' = "enumerating"
               /\ gen' = decompositions_depth_first(bound, None, None)
    /\ UNCHANGED <<surface, t, spanning_set, proj, H, U, U_rank, initOK, Omega,
                   dec, result, outcome, writes,
                   caller_visited, yields, earlier, input, raised>>

\* one pass of `for decomposition in self.decompositions_depth_first(...)`:
\* the next direction and its decomposition, the test of parabolic(), and
\* the return when the directions have run out
is_teichmueller_curve_loop ==
    /\ pc = "enumerating"
    /\ \E o \in {resume(gen, [U |-> U, U_rank |-> U_rank])} :
          /\ gen' = o.gen
          /\ IF o.yielded
             THEN /\ yields' = Append(yields, o.v)
                  /\ \E D \in CurveDecompositions :
                        /\ dec' = D
                        /\ IF parabolic(D, surface.ring) = "False"
                           THEN /\ call' = [call EXCEPT !.value = "False"]
                                /\ pc' = "answered"
                           ELSE UNCHANGED <<call, pc>>
             ELSE /\ call' = [call EXCEPT !.value = "Unknown"]
                  /\ pc' = "answered"
                  /\ UNCHANGED <<yields, dec>>
    /\ UNCHANGED <<surface, t, spanning_set, proj, H, U, U_rank, initOK, Omega,
                   result, outcome, writes, caller_visited, earlier, input, raised>>

NextCurve == is_teichmueller_curve \/ is_teichmueller_curve_loop

SpecCurve == InitCurve /\ [][NextCurve]_vars

\* two copies of the surface S side by side, the second on the edges after nE
Disjoint(S) ==
    LET sh(h) == IF h > 0 THEN h + S.nE ELSE h - S.nE
        un(h) == IF h > 0 THEN h - S.nE ELSE h + S.nE
    IN [nE |-> 2 * S.nE, ring |-> S.ring,
        nif |-> [h \in DOMAIN S.nif \cup {sh(g) : g \in DOMAIN S.nif} |->
                   IF h \in DOMAIN S.nif THEN S.nif[h] ELSE sh(S.nif[un(h)])],
        vec |-> S.vec \o S.vec]

\* the surface S with the next-in-face of the half-edges a and b exchanged: two
\* faces run together into one cycle of six, or one face falls into a cycle
\* of two and a cycle of one
Miswired(S, a, b) ==
    [S EXCEPT !.nif = [h \in DOMAIN S.nif |->
                         IF h = a THEN S.nif[b] ELSE IF h = b THEN S.nif[a] ELSE S.nif[h]]]

IsConnected(S) ==
    LET tree == _spanning_tree(S, DefaultRoot).t
    IN \A h \in DOMAIN S.nif : _half_edge_to_face(S, h) \in DOMAIN tree

IsTriangulated(S) ==
    \A h \in DOMAIN S.nif :
        /\ nextInFace(S, nextInFace(S, nextInFace(S, h))) = h
        /\ nextInFace(S, h) # h

DisconnectedSurfaces == {Disjoint(Torus), Disjoint(TwoSquares(KOne, "QQ"))}

MiswiredSurfaces ==
    {Miswired(S, a, b) : S \in {Torus}, a \in DOMAIN Torus.nif, b \in DOMAIN Torus.nif}
    \cup {Miswired(S, a, b) : S \in {TwoSquares(Sqrt2, "K")},
                              a \in DOMAIN Torus.nif, b \in DOMAIN TwoSquares(Sqrt2, "K").nif}
    \cup {Miswired(S, a, b) : S \in {LShape(KOne, "QQ")},
                              a \in {1, -1, 7}, b \in DOMAIN LShape(KOne, "QQ").nif}

\* the objects a caller hands to GL2ROrbitClosure(...)
Inputs ==
    {TranslationSurface(S) : S \in Surfaces \cup DisconnectedSurfaces \cup MiswiredSurfaces}
    \cup {[cls |-> c, S |-> S] :
             c \in {"DilationSurface", "SimilaritySurface", "Origami",
                    "MinimalTranslationCover"},
             S \in {Torus, LShape(Sqrt2, "K"), Disjoint(Torus)}}

InitInput ==
    /\ input \in Inputs
    /\ surface = NoSurface
    /\ pc = "constructing"
    /\ t = <<>>
    /\ spanning_set = <<>>
    /\ proj = <<>>
    /\ Omega = <<>>
    /\ H = <<>>
    /\ U = <<>>
    /\ U_rank = 0
    /\ initOK = FALSE
    /\ Idle
    /\ raised = "none"
    /\ gen = NoGenerator(None, FALSE)
    /\ caller_visited = {}
    /\ yields = <<>>
    /\ earlier = [bound |-> 0, vs |-> <<>>]

\* O = GL2ROrbitClosure(input)
construct_input ==
    /\ pc = "constructing"
    /\ \E o \in {GL2ROrbitClosure(input)} :
          /\ raised' = o.raised
          /\ surface' = o.surface
          /\ t' = o.t
          /\ spanning_set' = o.spanning_set
          /\ proj' = o.proj
          /\ Omega' = o.Omega
          /\ H' = o.H
          /\ U' = o.U
          /\ U_rank' = o.U_rank
          /\ initOK' = o.ok
          /\ pc' = IF o.raised = "none" THEN "idle" ELSE "failed"
    /\ UNCHANGED <<input, dec, result, outcome, writes, call,
                   gen, caller_visited, yields, earlier>>

NextInput == construct_input

SpecInput == InitInput /\ [][NextInput]_vars

(***************************************************************************)
(* Properties.                                                             *)
(***************************************************************************)
HasKind(D, kind) == \E k \in 1..Len(D.components) : D.components[k].kind = kind
AllKind(D, kind) ==
    /\ D.components # <<>>
    /\ \A k \in 1..Len(D.components) : D.components[k].kind = kind
\* the position of the first undetermined component, 0 if there is none
FirstUndetermined(D) ==
    LET und == {k \in 1..Len(D.components) : D.components[k].kind = "undetermined"}
    IN IF und = {} THEN 0 ELSE CHOOSE k \in und : \A j \in und : k <= j
\* v lies in the span of the rows
InSpan(v, rows) == Rank(Append(rows, v)) = Rank(rows)
CommittedCount(log) == Cardinality({k \in 1..Len(log) : log[k].committed})
\* width * circumference of the cylinders of D, and their moduli, in order
CylinderVectors(D) ==
    LET cyls == SelectSeq(D.components, LAMBDA c : c.kind = "cylinder")
    IN [k \in 1..Len(cyls) |-> VScale(cyls[k].width, VToK(cyls[k].circ))]
CylinderModuli(D) ==
    LET cyls == SelectSeq(D.components, LAMBDA c : c.kind = "cylinder")
    IN [k \in 1..Len(cyls) |-> cyls[k].modulus]

\* integer row times a vector over the field
RECURSIVE ZKDot(_, _, _)
ZKDot(b, x, k) == IF k = 0 THEN KZero ELSE KAdd(KMul(ToK(b[k]), x[k]), ZKDot(b, x, k - 1))
ZKApply(M, x) == [i \in 1..Len(M) |-> ZKDot(M[i], x, Len(x))]
LiftVanishesOnBoundaries ==
    \A k \in 1..Len(boundaries(surface)) :
        KIsZero(ZKDot(boundaries(surface)[k], call.value.value, size(surface)))

\* C1: for every face, proj times the signed edge vector that boundaries()
\* returns for that face is the zero vector.
C1_ProjAnnihilatesBoundaries ==
    pc # "constructing" =>
        \A k \in 1..Len(boundaries(surface)) :
            ZIsZero(ZApply(proj, boundaries(surface)[k]))

\* C1 witness: a constructed driver whose tree has edges, one of them reversed,
\* and whose projection has a nonzero entry in the column of a tree edge.
C1_Witness ==
    /\ pc = "idle"
    /\ Len(boundaries(surface)) >= 4
    /\ \E f \in DOMAIN t : t[f] < 0
    /\ \E i \in 1..Len(proj) : \E c \in 1..size(surface) :
          /\ \A k \in 1..Len(spanning_set) : spanning_set[k] # c
          /\ proj[i][c] # 0

\* C2: over any sequence of updates dimension() never decreases and never
\* exceeds the number of rows of U.
C2_DimensionMonotoneBounded ==
    /\ dimension <= Len(U)
    /\ [][U_rank' >= U_rank /\ U_rank' <= Len(U')]_vars

\* C2 witness: two updates have raised the dimension from 2 to the row count 4.
C2_Witness ==
    /\ pc = "returned"
    /\ Len(U) = 4
    /\ U_rank = 4
    /\ Len(writes) = 1
    /\ writes[1].committed

\* C3: in every reachable state, the state right after construction included,
\* the first r rows of U are linearly independent.
C3_CommittedRowsIndependent ==
    Rank(tangent_space_basis) = U_rank

\* C3 witness: after an update that committed a row.
C3_Witness ==
    /\ pc = "returned"
    /\ Len(tangent_space_basis) > 2
    /\ CommittedCount(writes) > 0

\* C4: a vector that lies in the span of the rows committed when it is inserted
\* is never committed (r stays as it is).
C4_InsertInSpanKeepsRank ==
    \A k \in 1..Len(writes) :
        InSpan(writes[k].v, SubSeq(U, 1, writes[k].row)) => ~writes[k].committed

\* C4 witness: after an earlier commit, a nonzero vector of the span of the
\* committed rows was inserted and discarded.
C4_Witness ==
    /\ pc = "returned"
    /\ \E k \in 1..Len(writes) :
          /\ writes[k].row >= 3
          /\ ~VIsZero(writes[k].v)
          /\ InSpan(writes[k].v, SubSeq(U, 1, writes[k].row))
          /\ ~writes[k].committed
          /\ U_rank = writes[k].row

\* C5 as stated: whenever the decomposition has an undetermined component,
\* cylinder_deformation_subspace returns the empty list and the update returns.
C5_UndeterminedNeverRaises ==
    (pc = "returned" /\ HasKind(dec, "undetermined") /\ result.called) =>
        (result = Returned(<<>>) /\ outcome = "returned")

\* C5 amended: with an undetermined component the update leaves U and r as they
\* are; cylinder_deformation_subspace returns the empty list unless the cocycle
\* assertions fail or those of a cylinder before the first undetermined
\* component do, and then the exception reaches the caller.
C5_UndeterminedEmptyOrAbort ==
    [][(pc = "pending" /\ HasKind(dec, "undetermined")) =>
          /\ U' = U
          /\ U_rank' = U_rank
          /\ writes' = <<>>
          /\ result'.called =>
               IF dec.cocycle
                  /\ (FirstFailing(dec) = 0 \/ FirstFailing(dec) > FirstUndetermined(dec))
               THEN result' = Returned(<<>>) /\ outcome' = "returned"
               ELSE result' = Raised /\ outcome' = "derivation_raised"]_vars

\* C5 witness: a cylinder was worked out before the undetermined component was
\* met, and the result was the empty list.
C5_Witness ==
    /\ pc = "returned"
    /\ Len(dec.components) >= 2
    /\ dec.components[1].kind = "cylinder"
    /\ dec.components[2].kind = "undetermined"
    /\ result = Returned(<<>>)
    /\ outcome = "returned"

\* C6 as stated: whenever the decomposition has a minimal component, what
\* cylinder_deformation_subspace returns is empty.
C6_MinimalGivesEmpty ==
    (pc = "returned" /\ HasKind(dec, "minimal") /\ result.called /\ ~result.raised) =>
        result.vectors = <<>>

\* C6 amended: minimal components are skipped; without an undetermined
\* component and without a failed assertion the result is that of the
\* cylinders alone: over the rationals the one vector sum(width * circumference)
\* (the number 0 without cylinders), over a number field their twist vectors.
C6_MinimalSkipped ==
    (/\ pc = "returned"
     /\ HasKind(dec, "minimal")
     /\ ~HasKind(dec, "undetermined")
     /\ result.called
     /\ ~result.raised) =>
        result.vectors =
            IF surface.ring = "QQ" THEN <<VSum(CylinderVectors(dec))>>
            ELSE TwistVectors(CylinderModuli(dec), CylinderVectors(dec))

\* C6 witness: a direction with a cylinder and a minimal component gave a
\* vector that was committed.
C6_Witness ==
    /\ pc = "returned"
    /\ HasKind(dec, "minimal")
    /\ HasKind(dec, "cylinder")
    /\ result.called
    /\ Len(result.vectors) = 1
    /\ CommittedCount(writes) = 1

\* C7: an update from a decomposition all of whose components are minimal
\* leaves dimension() as it was.
C7_MinimalDirectionKeepsDimension ==
    [][(pc = "pending" /\ AllKind(dec, "minimal")) => U_rank' = U_rank]_vars

\* C7 witness: an update from an all-minimal decomposition wrote its one
\* vector into the candidate row and discarded it.
C7_Witness ==
    /\ pc = "returned"
    /\ AllKind(dec, "minimal")
    /\ result.called
    /\ Len(writes) = 1
    /\ ~writes[1].committed
    /\ U_rank < Len(U)

\* C8: once dimension() equals the row count of U no step changes U or r, an
\* update returns without writing, and within one update nothing is written
\* after the commit that fills U.
C8_FullIsAbsorbing ==
    /\ [](\A k \in 1..(Len(writes) - 1) :
            ~(writes[k].committed /\ writes[k].row + 1 = Len(U)))
    /\ [][U_rank = Len(U) =>
            /\ U' = U
            /\ U_rank' = U_rank
            /\ pc = "pending" => (outcome' = "returned" /\ writes' = <<>>)]_vars

\* C8 witness: the update filled U with the first of two vectors and wrote
\* nothing after it.
C8_Witness ==
    /\ pc = "returned"
    /\ Len(result.vectors) = 2
    /\ Len(writes) = 1
    /\ writes[1].committed
    /\ U_rank = Len(U)

\* C9: the rank after writing a candidate into row r is r or r + 1, the
\* assertion r == i + 1 never fails, and an update raises dimension() by the
\* number of rows it committed.
C9_RankStepIsOne ==
    /\ [](/\ outcome # "rank_assertion"
          /\ \A k \in 1..Len(writes) :
                /\ writes[k].rank \in {writes[k].row, writes[k].row + 1}
                /\ writes[k].committed <=> (writes[k].rank = writes[k].row + 1))
    /\ [][pc = "pending" => U_rank' = U_rank + CommittedCount(writes')]_vars

\* C9 witness: one update committed two rows, one after the other.
C9_Witness ==
    /\ pc = "returned"
    /\ Len(writes) = 2
    /\ writes[1].committed
    /\ writes[2].committed
    /\ writes[2].row = writes[1].row + 1

\* C10: when deriving the vectors of a direction aborts, U and r are what they
\* were before the update and nothing was written.
C10_AbortLeavesAccumulator ==
    [][(pc = "pending" /\ outcome' = "derivation_raised") =>
          (U' = U /\ U_rank' = U_rank /\ writes' = <<>>)]_vars

\* C10 witness: the derivation aborted on a cylinder that came after one
\* already worked out, with room left in U.
C10_Witness ==
    /\ pc = "returned"
    /\ outcome = "derivation_raised"
    /\ dec.cocycle
    /\ FirstFailing(dec) > 1
    /\ dec.components[1].kind = "cylinder"
    /\ U_rank < Len(U)

\* C11 as stated: lift(v) has one entry per edge, vanishes on every face
\* boundary, and proj * lift(v) = v.
C11_LiftProjectsBack ==
    (pc = "lifted" /\ call.op = "lift") =>
        /\ call.value.raised = "none"
        /\ Len(call.value.value) = size(surface)
        /\ LiftVanishesOnBoundaries
        /\ ZKApply(proj, call.value.value) = call.arg

\* C11 amended: lift(v) is the one vector with an entry per edge that vanishes
\* on every face boundary and whose entries at the spanning-set edges are those
\* of v; it is v * proj (the transpose of proj applied to v), and proj is not
\* applied to it.
C11_LiftRestrictsBack ==
    (pc = "lifted" /\ call.op = "lift") =>
        /\ call.value.raised = "none"
        /\ ~call.value.free
        /\ call.value.exact
        /\ Len(call.value.value) = size(surface)
        /\ LiftVanishesOnBoundaries
        /\ \A k \in 1..d : call.value.value[edge_index(spanning_set[k]) + 1] = call.arg[k]
        /\ call.value.value = ZKApply(Transpose(proj), call.arg)

\* C11 witness: a row of the tangent space basis with an irrational entry was
\* lifted to a vector that is not zero on an edge of the tree.
C11_Witness ==
    /\ pc = "lifted"
    /\ \E k \in 1..d : call.arg[k][2] # 0
    /\ \E c \in 1..size(surface) :
          /\ \A k \in 1..d : spanning_set[k] # c
          /\ ~KIsZero(call.value.value[c])

\* C12: Omega is skew-symmetric with zero diagonal.
C12_OmegaSkewSymmetric ==
    pc # "constructing" =>
        /\ Len(Omega) = d
        /\ \A i \in 1..d : \A j \in 1..d : Omega[i][j] = -Omega[j][i]
        /\ \A i \in 1..d : Omega[i][i] = 0

\* C12 witness: a constructed driver of ambient dimension 4 whose Omega has
\* entries of both signs above the diagonal.
C12_Witness ==
    /\ pc = "idle"
    /\ initOK
    /\ d = 4
    /\ \E i \in 1..d : \E j \in (i + 1)..d : Omega[i][j] = 1
    /\ \E i \in 1..d : \E j \in (i + 1)..d : Omega[i][j] = -1

Parallel(v, w) == v[1] * w[2] = v[2] * w[1]
\* the direction of v is outside the sector
OutsideSector(sector, v) ==
    /\ sector # None
    /\ ~is_between(sector[1], sector[2], IF v[2] < 0 \/ (v[2] = 0 /\ v[1] < 0)
                                          THEN <<Frac(-v[1], 1), Frac(-v[2], 1)>>
                                          ELSE <<Frac(v[1], 1), Frac(v[2], 1)>>)
\* some vector of vs is parallel to some vector of ws
Repeats(vs, ws) == \E i \in 1..Len(vs) : \E j \in 1..Len(ws) : Parallel(vs[i], ws[j])

\* C13: within one enumeration no two yielded vectors are parallel, and no
\* yielded vector has its direction outside the sector.
C13_NoDirectionTwice ==
    /\ \A i \in 1..Len(yields) : \A j \in 1..Len(yields) :
          i # j => ~Parallel(yields[i], yields[j])
    /\ \A i \in 1..Len(yields) : ~OutsideSector(gen.sector, yields[i])

\* C13 witness: an enumeration with a sector has ended after yielding a
\* direction, having passed over the opposite and the parallel vectors and
\* those outside the sector.
C13_Witness ==
    /\ ~gen.active
    /\ gen.bound = 2
    /\ gen.sector # None
    /\ Len(yields) >= 1
    /\ Len(yields) < Len(saddle_connections(gen.bound))

\* C14 as stated: an enumeration with a larger bound than the exhausted one
\* before it yields no direction that the earlier one yielded.
C14_NoRepeatAcrossEnumerations ==
    (earlier.bound > 0 /\ gen.bound > earlier.bound) => ~Repeats(yields, earlier.vs)

\* C14 amended: the visited set is not kept by the driver; an enumeration
\* yields no direction of the one before it if the caller has passed the same
\* set as visited= to both, and without that set it starts afresh: run to its
\* end with a bound at least as large, it yields every direction of the one
\* before once more.
C14_RepeatsUnlessVisitedPassed ==
    (earlier.bound > 0) =>
        /\ gen.shared => ~Repeats(yields, earlier.vs)
        /\ (~gen.shared /\ ~gen.active /\ gen.bound >= earlier.bound) =>
              \A i \in 1..Len(earlier.vs) :
                  \E j \in 1..Len(yields) : Parallel(yields[j], earlier.vs[i])

\* C14 witness: with the caller's set passed to both, the second enumeration
\* of larger bound has yielded a new direction only.
C14_Witness ==
    /\ gen.shared
    /\ earlier.bound = 1
    /\ earlier.vs # <<>>
    /\ gen.bound = 2
    /\ ~gen.active
    /\ yields # <<>>

\* C15 as stated: a decomposition handed out is fed to the accumulator before
\* anything else happens, and no direction is produced once the accumulator
\* is full.
C15_DriverFeedsAccumulator ==
    /\ [][pc = "pending" => pc' = "returned"]_vars
    /\ [][(gen.active /\ pc = "idle" /\ pc' = "pending") => U_rank < Len(U)]_vars

\* C15 amended: the enumeration only hands out decompositions; a step of the
\* generator leaves U and dimension() as they are, it yields exactly when a
\* saddle connection whose direction is in the sector and not yet visited is
\* left, whether or not the accumulator is full, and the accumulator changes
\* only when the caller passes a decomposition to the update.
C15_EnumerationOnlyYields ==
    [][/\ (gen' # gen) => (U' = U /\ U_rank' = U_rank /\ writes' = writes)
       /\ (gen.active /\ gen' # gen) =>
             ((pc' = "pending") <=>
                 \E k \in 1..Len(gen.conns) :
                    /\ slope(gen.conns[k]) \notin gen.visited
                    /\ ~OutsideSector(gen.sector, gen.conns[k]))
       /\ (U' # U \/ U_rank' # U_rank) => (pc = "pending" /\ pc' = "returned")]_vars

\* C15 witness: a direction was yielded while the accumulator was full, after
\* an update had filled it.
C15_Witness ==
    /\ pc = "pending"
    /\ gen.active
    /\ Len(yields) >= 2
    /\ Len(U) = 3
    /\ U_rank = Len(U)

\* C16: on the torus of two triangles dimension() is 2 after construction and
\* after every enumeration and update.
C16_TorusDimensionTwo ==
    surface = Torus => dimension = 2

\* C16 witness: on the torus an update from the cylinder of a yielded
\* direction has returned.
C16_Witness ==
    /\ surface = Torus
    /\ pc = "returned"
    /\ yields # <<>>
    /\ dec.components[1].kind = "cylinder"
    /\ dec.components[1].checks
    /\ outcome = "returned"

\* C20 as stated: 3d - 3 is the number of half-edges of the surface.
C20_ThreeDMinusThreeIsHalfEdges ==
    pc # "constructing" => 3 * d - 3 = Cardinality(DOMAIN surface.nif)

\* C20 amended: 3d - 3 is the number of edges of the surface, which is what
\* size() returns and half the number of its half-edges; the assertion of
\* __init__ holds.
C20_ThreeDMinusThreeIsEdges ==
    pc # "constructing" =>
        /\ initOK
        /\ 3 * d - 3 = surface.nE
        /\ 2 * (3 * d - 3) = Cardinality(DOMAIN surface.nif)

\* C20 witness: a constructed driver with d = 4 on a surface of 9 edges and
\* 18 half-edges.
C20_Witness ==
    /\ pc = "idle"
    /\ d = 4
    /\ surface.nE = 9
    /\ Cardinality(DOMAIN surface.nif) = 18
    /\ \E f \in DOMAIN t : t[f] > 0

\* C17: constructing from an object that is not a TranslationSurface raises
\* ValueError and assigns nothing: no surface, tree, matrix or accumulator.
C17_NotTranslationSurfaceRaises ==
    (pc # "constructing" /\ "TranslationSurface" \notin Ancestors(input.cls)) =>
        /\ pc = "failed"
        /\ raised = "ValueError"
        /\ surface = NoSurface
        /\ t = <<>> /\ spanning_set = <<>>
        /\ proj = <<>> /\ Omega = <<>> /\ H = <<>>
        /\ U = <<>> /\ U_rank = 0

\* C17 witness: a dilation surface that has the half-edge structure of a good
\* surface was refused.
C17_Witness ==
    /\ pc = "failed"
    /\ input.cls = "DilationSurface"
    /\ IsConnected(input.S)
    /\ IsTriangulated(input.S)
    /\ raised = "ValueError"

\* C18: if the surface is disconnected or a face is not a 3-cycle of
\* next-in-face, construction raises and no driver comes out of it.
C18_BadSurfaceFails ==
    (/\ pc # "constructing"
     /\ isinstance(input, "TranslationSurface")
     /\ (~IsTriangulated(input.S) \/ ~IsConnected(input.S))) =>
        /\ pc = "failed"
        /\ raised = "AssertionError"
        /\ U = <<>> /\ U_rank = 0

\* C18 witness: a surface of two components was refused by the assertion on
\* the keys of the tree.
C18_Witness ==
    /\ pc = "failed"
    /\ raised = "AssertionError"
    /\ IsTriangulated(input.S)
    /\ ~IsConnected(input.S)
    /\ surface = input.S

\* C19: from every root, the tree has one face with no half-edge (the face
\* of the root); every other face has the half-edge recorded at its visit,
\* which lies in that face and whose opposite lies in a face visited
\* earlier; and the tree has as many keys as the surface has faces.
C19_SpanningTreeShape ==
    (pc = "called" /\ call.op = "_spanning_tree") =>
        LET tree == call.value.t
            edges == call.value.edges
            face(h) == _half_edge_to_face(surface, h)
            visited_before(k) == {face(call.arg)} \cup {face(edges[j]) : j \in 1..(k - 1)}
        IN /\ {f \in DOMAIN tree : tree[f] = 0} = {face(call.arg)}
           /\ \A f \in DOMAIN tree \ {face(call.arg)} :
                 /\ face(tree[f]) = f
                 /\ Cardinality({k \in 1..Len(edges) : edges[k] = tree[f]}) = 1
           /\ \A k \in 1..Len(edges) :
                 /\ tree[face(edges[k])] = edges[k]
                 /\ face(edges[k]) \notin visited_before(k)
                 /\ face(-edges[k]) \in visited_before(k)
           /\ Cardinality(DOMAIN tree) = Len(_faces(surface))
           /\ Len(edges) + 1 = Cardinality(DOMAIN tree)

\* C19 witness: a tree over six faces grown from a root that is not the
\* default one.
C19_Witness ==
    /\ pc = "called"
    /\ call.op = "_spanning_tree"
    /\ call.arg \notin {DefaultRoot, -DefaultRoot}
    /\ Len(call.value.edges) = 5
    /\ Cardinality(DOMAIN call.value.t) = 6

\* C21: over the rationals, when a decomposition has no undetermined component
\* and its vectors are derived, they are the one vector
\* sum(width * circumference) over its cylinders, and the update raises
\* dimension() by at most 1.
C21_RationalOneVector ==
    [][(/\ pc = "pending"
        /\ pc' = "returned"
        /\ surface.ring = "QQ"
        /\ ~HasKind(dec, "undetermined")) =>
          /\ U_rank' <= U_rank + 1
          /\ (result'.called /\ ~result'.raised) =>
                result'.vectors = <<VSum(CylinderVectors(dec))>>]_vars

\* C21 witness: a rational direction with two cylinders of different
\* circumferences gave one vector, and the dimension went up by one.
C21_Witness ==
    /\ pc = "returned"
    /\ surface.ring = "QQ"
    /\ Len(dec.components) = 2
    /\ AllKind(dec, "cylinder")
    /\ dec.components[1].circ # dec.components[2].circ
    /\ Len(result.vectors) = 1
    /\ Len(writes) = 1
    /\ writes[1].committed

\* some modulus of D is not a rational multiple of the first
Incommensurable(D) ==
    \E k \in 1..Len(D.components) :
        ~is_rational(KDiv(D.components[k].modulus, D.components[1].modulus))

C23_EliminationLeavesIdentity ==
    (pc = "called" /\ call.op = "_spanning_tree") =>
        LET m == call.value.proj
            edges == call.value.edges
            ss == SpanningSet(surface, call.value.t)
            rows == NonZeroRows(Transpose(m))
        IN /\ call.value.ok
           /\ \A k \in 1..Len(edges) : \A j \in 1..size(surface) :
                 m[j][edge_index(edges[k]) + 1] = 0
           /\ Len(rows) = Len(ss)
           /\ Len(ss) = d
           /\ \A k \in 1..Len(rows) : \A j \in 1..Len(ss) :
                 rows[k][edge_index(ss[j]) + 1] = (IF k = j THEN 1 ELSE 0)
           /\ Rank(MToK(m)) = d

\* C23 witness: an elimination over five tree edges, in which the row of a
\* tree edge came out with more than two nonzero entries.
C23_Witness ==
    /\ pc = "called"
    /\ call.op = "_spanning_tree"
    /\ Len(call.value.edges) = 5
    /\ \E k \in 1..5 :
          Cardinality({c \in 1..size(surface) :
                          call.value.proj[edge_index(call.value.edges[k]) + 1][c] # 0}) > 2

RECURSIVE SignedRowSum(_, _, _, _)
\* the sum of s * m[j] over the saddle connections of per from position p
\* on, (j, s) being the row and the sign of each under sc_index
SignedRowSum(m, sc_index, per, p) ==
    IF p > Len(per) THEN [c \in 1..Len(m) |-> 0]
    ELSE LET rest == SignedRowSum(m, sc_index, per, p + 1)
         IN [c \in 1..Len(m) |->
               sc_sign(sc_index[per[p]]) * m[sc_row(sc_index[per[p]]) + 1][c] + rest[c]]

\* the elimination of _spanning_tree_decomposition ran to its end
Eliminated ==
    /\ pc = "called"
    /\ call.op = "kontsevich_zorich_cocycle"
    /\ call.value.line # 157

\* C24 as stated: after the elimination the signed sum of the rows of proj
\* over the perimeter of every component is zero.
C24_ProjAnnihilatesPerimeters ==
    Eliminated =>
        \A i \in 0..(Len(call.arg.perimeter) - 1) :
            ZIsZero(SignedRowSum(call.value.m, call.value.sc_index,
                                 perimeter(call.arg, i), 1))

\* C25: the tree reaches every component; the elimination removes one index
\* for each component but the first, all different, and fails no assertion;
\* n - C + 1 indices remain, the rank of proj is n - C + 1, and both
\* assertions that follow in kontsevich_zorich_cocycle hold.
C25_SpanningSetOfComponents ==
    (pc = "called" /\ call.op = "kontsevich_zorich_cocycle") =>
        LET v == call.value
            C == Len(call.arg.perimeter)
            removed == {sc_row(v.sc_index[v.edges[k]]) : k \in 1..Len(v.edges)}
        IN /\ v.line \notin {157, 179, 182}
           /\ DOMAIN v.t = 0..(C - 1)
           /\ Len(v.edges) = C - 1
           /\ Cardinality(removed) = C - 1
           /\ {v.spanning_set[k] : k \in 1..Len(v.spanning_set)} = (0..(v.n - 1)) \ removed
           /\ Len(v.spanning_set) = v.n - C + 1
           /\ Rank(MToK(v.m)) = v.n - C + 1

\* C25 witness: a decomposition of three or more components on six or more
\* saddle connections went through.
C25_Witness ==
    /\ pc = "called"
    /\ call.op = "kontsevich_zorich_cocycle"
    /\ Len(call.arg.perimeter) >= 3
    /\ call.value.n >= 6
    /\ call.value.raised = "none"

\* C29 as stated: A is a square d x d matrix and is accepted exactly when its
\* determinant is not zero.
C29_AcceptsInvertible ==
    (pc = "called" /\ call.op = "kontsevich_zorich_cocycle"
                   /\ call.value.line \in {0, 192}) =>
        /\ Len(call.value.A) = d
        /\ \A i \in 1..d : Len(call.value.A[i]) = d
        /\ call.value.raised = "none" <=> Det(call.value.A) # 0

\* C29: A is a square d x d matrix and is accepted exactly when its
\* determinant is 1 or -1; any other determinant, zero or not, fails the
\* assertion.
C29_AcceptsUnimodular ==
    (pc = "called" /\ call.op = "kontsevich_zorich_cocycle"
                   /\ call.value.line \in {0, 192}) =>
        /\ Len(call.value.A) = d
        /\ \A i \in 1..d : Len(call.value.A[i]) = d
        /\ call.value.raised = "none" <=> Det(call.value.A) \in {1, -1}
        /\ call.value.raised = "none" \/ call.value.raised = "AssertionError"

\* C29 witness: a matrix of determinant 2 or -2 was refused.
C29_Witness ==
    /\ pc = "called"
    /\ call.op = "kontsevich_zorich_cocycle"
    /\ call.value.line = 192
    /\ Det(call.value.A) \in {2, -2}
    /\ call.value.raised = "AssertionError"

RECURSIVE StepsToSpanning(_, _, _)
\* the number of passes of the inner loop that starts at h, at most k, or -1
\* if no half-edge of the spanning set comes within k passes
StepsToSpanning(all_edges, h, k) ==
    IF h \in all_edges THEN 0
    ELSE IF k = 0 THEN -1
    ELSE LET n == StepsToSpanning(all_edges, nextAtVertex(surface, h), k - 1)
         IN IF n < 0 THEN -1 ELSE n + 1

RECURSIVE AfterSteps(_, _)
AfterSteps(h, n) == IF n = 0 THEN h ELSE AfterSteps(nextAtVertex(surface, h), n - 1)

\* C26: whatever the root of the tree, the contour lists each of the 2d
\* half-edges of the spanning set exactly once, starting from the first;
\* from each the inner loop reaches the next within as many passes as
\* there are half-edges, the last one leading back to the first; and the
\* assertion on the length holds.
C26_ContourListsEachOnce ==
    (pc = "called" /\ call.op = "_intersection_matrix") =>
        LET ss == call.arg.spanning_set
            all_edges == {ss[k] : k \in 1..Len(ss)} \cup {-ss[k] : k \in 1..Len(ss)}
            contour == call.value.contour
            n == Len(contour)
            steps(k) == StepsToSpanning(all_edges, nextAtVertex(surface, -contour[k]),
                                        2 * size(surface))
        IN /\ n = 2 * Len(ss)
           /\ n = Cardinality(all_edges)
           /\ contour[1] = ss[1]
           /\ {contour[k] : k \in 1..n} = all_edges
           /\ \A k \in 1..n :
                 /\ steps(k) >= 0
                 /\ AfterSteps(nextAtVertex(surface, -contour[k]), steps(k))
                       = contour[(k % n) + 1]

\* C26 witness: a contour of eight half-edges in which the inner loop had to
\* pass over two half-edges of the tree in a row.
C26_Witness ==
    /\ pc = "called"
    /\ call.op = "_intersection_matrix"
    /\ Len(call.value.contour) = 8
    /\ \E k \in 1..8 :
          LET ss == call.arg.spanning_set
              all_edges == {ss[j] : j \in 1..Len(ss)} \cup {-ss[j] : j \in 1..Len(ss)}
          IN StepsToSpanning(all_edges, nextAtVertex(surface, -call.value.contour[k]),
                             2 * size(surface)) >= 2

\* the positions of the two half-edges of the k-th spanning edge, smaller first
ContourPositions(contour, ss, k) ==
    LET p == contour_inv(contour, ss[k])
        q == contour_inv(contour, -ss[k])
    IN IF p < q THEN <<p, q>> ELSE <<q, p>>

\* x y x y or y x y x
Interleave(a, b) ==
    \/ a[1] < b[1] /\ b[1] < a[2] /\ a[2] < b[2]
    \/ b[1] < a[1] /\ a[1] < b[2] /\ b[2] < a[2]

RECURSIVE Exhaust(_, _)
\* the vectors a depth-first generator yields until it ends
Exhaust(g, out) ==
    LET o == resume(g, [U |-> <<>>, U_rank |-> 0])
    IN IF o.yielded THEN Exhaust(o.gen, Append(out, o.v)) ELSE out

\* the directions of a sequence of vectors
Slopes(vs) == {slope(vs[k]) : k \in 1..Len(vs)}

\* the smallest i in 0..B at which a saddle connection of direction sl appears
FirstBound(sl, B) ==
    CHOOSE i \in 0..B :
       /\ sl \in Slopes(saddle_connections(i))
       /\ \A j \in 0..(i - 1) : sl \notin Slopes(saddle_connections(j))

\* C28: once a breadth-first enumeration has ended, the directions it yielded
\* are those the depth-first enumeration of the same bound, sector and
\* visited set yields, each yielded once, in the order of the smallest bound
\* at which a saddle connection of the direction appears.
C28_BreadthFirstSameDirections ==
    ("i" \in DOMAIN gen /\ ~gen.active) =>
       \E given \in {gen.visited \ Slopes(yields)} :
          /\ Slopes(yields) =
                Slopes(Exhaust(decompositions_depth_first(gen.bound, gen.sector,
                                                          <<given>>), <<>>))
          /\ Cardinality(Slopes(yields)) = Len(yields)
          /\ \A k \in 1..(Len(yields) - 1) :
                FirstBound(slope(yields[k]), gen.bound)
                   <= FirstBound(slope(yields[k + 1]), gen.bound)

\* the rows of U up to and including the slot of the next candidate
UpToCandidate == SubSeq(U, 1, IF U_rank < Len(U) THEN U_rank + 1 ELSE Len(U))

\* C30: after construction and after every update the rank of the whole of U
\* is the tracked rank: the rows past the slot of the next candidate are
\* zero, the slot holds zero or a discarded candidate that lies in the span
\* of the rows before it, tangent_space_basis() is made of the U_rank
\* independent rows before the slot, and every rank the insert test took of
\* the whole matrix is the rank of the rows up to the slot.
C30_WholeRankIsTracked ==
    pc \in {"idle", "pending", "returned"} =>
       /\ Rank(U) = U_rank
       /\ \A k \in (U_rank + 2)..Len(U) : VIsZero(U[k])
       /\ U_rank < Len(U) =>
             \/ VIsZero(U[U_rank + 1])
             \/ InSpan(U[U_rank + 1], SubSeq(U, 1, U_rank))
       /\ (pc = "returned" /\ writes # <<>> /\ ~writes[Len(writes)].committed) =>
             U[U_rank + 1] = writes[Len(writes)].v
       /\ Len(tangent_space_basis) = U_rank
       /\ Rank(tangent_space_basis) = U_rank
       /\ Rank(U) = Rank(UpToCandidate)
       /\ \A k \in 1..Len(writes) :
             writes[k].rank = Rank(Append(SubSeq(U, 1, writes[k].row), writes[k].v))

\* an update that committed a vector and then discarded one, which stays in
\* the slot after the committed rows
C30_Witness ==
    /\ pc = "returned"
    /\ outcome = "returned"
    /\ U_rank < Len(U)
    /\ \E k \in 1..Len(writes) : writes[k].committed
    /\ ~writes[Len(writes)].committed
    /\ ~VIsZero(U[U_rank + 1])
    /\ U[U_rank + 1] = writes[Len(writes)].v

====
